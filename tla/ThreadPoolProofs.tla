--------------------------- MODULE ThreadPoolProofs ---------------------------
(***************************************************************************)
(* The pool of thread_pool.h runs no task twice and strands none in front  *)
(* of sleeping workers, for any number of workers and tasks.               *)
(***************************************************************************)
EXTENDS ThreadPool, FiniteSetTheorems, TLAPS

\* A worker has a task in its hands exactly while it runs it.
JobsInHand == \A w \in Worker : pc[w] = "exec" <=> job[w] # NULL

\* Who evaluates the predicate, or goes to sleep on it, holds _lock; and
\* because of that the queue is still empty when it falls asleep.
LockHeld ==
    /\ \A w \in Worker : pc[w] \in {"test", "block"} <=> lock = w
    /\ \A w \in Worker : pc[w] = "block" => tasks = <<>>

IInv == TypeOK /\ JobsInHand /\ LockHeld /\ TaskOnce

\* The pool starts idle.
LEMMA InitInv == Init => IInv
<1> SUFFICES ASSUME Init PROVE IInv
  OBVIOUS
<1> USE ThreadPoolAssumption DEF Init
<1>1. TypeOK
  BY DEF TypeOK, WorkerPc, OwnerPc
<1>2. JobsInHand /\ LockHeld
  BY DEF JobsInHand, LockHeld
<1>3. TaskOnce
  BY DEF TaskOnce, Queued, Taken
<1> QED
  BY <1>1, <1>2, <1>3 DEF IInv

\* commit() (lines 51-75) queues a task that was nowhere before.
LEMMA EnqueueInv == IInv /\ Enqueue => IInv'
<1> SUFFICES ASSUME IInv, Enqueue PROVE IInv'
  OBVIOUS
<1> USE ThreadPoolAssumption DEF IInv
<1>1. PICK t \in todo : tasks' = Append(tasks, t) /\ todo' = todo \ {t}
  BY DEF Enqueue
<1>2. /\ lock = NULL /\ opc' = "notify"
      /\ UNCHANGED <<run, lock, pc, job, done>>
  BY DEF Enqueue
<1>3. t \in Task /\ tasks \in Seq(Task) /\ tasks' \in Seq(Task)
  BY <1>1 DEF TypeOK
<1>4. TypeOK'
  BY <1>1, <1>2, <1>3 DEF TypeOK, OwnerPc
<1>5. JobsInHand' /\ LockHeld'
  BY <1>2 DEF JobsInHand, LockHeld
<1>6. /\ Len(tasks) \in Nat /\ Len(tasks') = Len(tasks) + 1
      /\ tasks'[Len(tasks) + 1] = t
      /\ \A i \in 1..Len(tasks) : tasks'[i] = tasks[i]
  BY <1>1, <1>3
<1>7. Queued' = Queued \cup {t} /\ Taken' = Taken
  BY <1>2, <1>6 DEF Queued, Taken
<1>8. t \notin Queued
  BY <1>1 DEF TaskOnce
<1>9. \A i, j \in 1..Len(tasks') : tasks'[i] = tasks'[j] => i = j
  <2> SUFFICES ASSUME NEW i \in 1..(Len(tasks) + 1),
                      NEW j \in 1..(Len(tasks) + 1), tasks'[i] = tasks'[j]
               PROVE  i = j
    BY <1>6
  <2>1. \A k \in 1..Len(tasks) : tasks'[k] # t
    BY <1>6, <1>8 DEF Queued
  <2>2. CASE i = Len(tasks) + 1
    BY <1>6, <2>1, <2>2
  <2>3. CASE j = Len(tasks) + 1
    BY <1>6, <2>1, <2>3
  <2>4. CASE i \in 1..Len(tasks) /\ j \in 1..Len(tasks)
    BY <1>6, <2>4 DEF TaskOnce
  <2> QED
    BY <1>6, <2>2, <2>3, <2>4
<1>10. TaskOnce'
  BY <1>1, <1>2, <1>7, <1>8, <1>9 DEF TaskOnce
<1> QED
  BY <1>4, <1>5, <1>10

\* A worker takes the first task (lines 101-102): it leaves the queue as it
\* comes into the worker's hands.
LEMMA TestTakeInv == ASSUME IInv, NEW w \in Worker, TestTake(w) PROVE IInv'
<1> USE ThreadPoolAssumption DEF IInv
<1>1. /\ pc[w] = "test" /\ pc' = [pc EXCEPT ![w] = "exec"]
      /\ tasks # <<>> /\ tasks' = Tail(tasks)
      /\ job' = [job EXCEPT ![w] = Head(tasks)]
      /\ lock' = NULL
      /\ UNCHANGED <<run, opc, todo, done>>
  BY DEF TestTake, Goto
<1>2. tasks \in Seq(Task) /\ Head(tasks) \in Task /\ Tail(tasks) \in Seq(Task)
  BY <1>1 DEF TypeOK
<1>3. TypeOK'
  BY <1>1, <1>2 DEF TypeOK, WorkerPc
<1>4. job[w] = NULL /\ lock = w
  BY <1>1 DEF JobsInHand, LockHeld
<1>5. JobsInHand' /\ LockHeld'
  BY <1>1, <1>2, <1>4 DEF JobsInHand, LockHeld, TypeOK
<1>6. /\ Len(tasks) \in Nat /\ Len(tasks) >= 1
      /\ Len(tasks') = Len(tasks) - 1
      /\ \A i \in 1..(Len(tasks) - 1) : tasks'[i] = tasks[i + 1]
      /\ Head(tasks) = tasks[1]
  BY <1>1, <1>2
<1>7. Queued' \subseteq Queued /\ Head(tasks) \notin Queued'
      /\ Head(tasks) \in Queued
  BY <1>6 DEF Queued, TaskOnce
<1>8. /\ job'[w] = Head(tasks)
      /\ \A v \in Worker : v # w => job'[v] = job[v]
  BY <1>1 DEF TypeOK
<1>9. Taken' \subseteq Taken \cup {Head(tasks)}
  BY <1>8 DEF Taken
<1>10. \A i, j \in 1..Len(tasks') : tasks'[i] = tasks'[j] => i = j
  <2> SUFFICES ASSUME NEW i \in 1..(Len(tasks) - 1),
                      NEW j \in 1..(Len(tasks) - 1), tasks'[i] = tasks'[j]
               PROVE  i = j
    BY <1>6
  <2>1. tasks[i + 1] = tasks[j + 1]
    BY <1>6
  <2>2. i + 1 \in 1..Len(tasks) /\ j + 1 \in 1..Len(tasks)
    BY <1>6
  <2>3. i + 1 = j + 1
    BY <2>1, <2>2 DEF TaskOnce
  <2> QED
    BY <1>6, <2>3
<1>11. \A u, v \in Worker : job'[u] = job'[v] /\ job'[v] # NULL => u = v
  BY <1>7, <1>8 DEF TaskOnce, Taken
<1>12. /\ Queued' \cap Taken' = {}
       /\ (Queued' \cup Taken') \cap (todo' \cup done') = {}
  BY <1>1, <1>7, <1>9 DEF TaskOnce
<1>13. TaskOnce'
  BY <1>1, <1>10, <1>11, <1>12 DEF TaskOnce
<1> QED
  BY <1>3, <1>5, <1>13

\* A finished task leaves the worker's hands.
LEMMA ReturnInv == ASSUME IInv, NEW w \in Worker, Return(w) PROVE IInv'
<1> USE ThreadPoolAssumption DEF IInv
<1>1. /\ pc[w] = "exec" /\ pc' = [pc EXCEPT ![w] = "top"]
      /\ done' = done \cup {job[w]}
      /\ job' = [job EXCEPT ![w] = NULL]
      /\ UNCHANGED <<run, tasks, lock, opc, todo>>
  BY DEF Return, Goto
<1>2. job[w] # NULL /\ job[w] \in Task
  BY <1>1 DEF JobsInHand, TypeOK
<1>3. TypeOK' /\ JobsInHand' /\ LockHeld'
  BY <1>1, <1>2 DEF TypeOK, WorkerPc, JobsInHand, LockHeld
<1>4. /\ job'[w] = NULL
      /\ \A v \in Worker : v # w => job'[v] = job[v]
  BY <1>1 DEF TypeOK
<1>5. Queued' = Queued /\ Taken' \subseteq Taken /\ job[w] \notin Taken'
      /\ job[w] \in Taken
  BY <1>1, <1>2, <1>4 DEF Queued, Taken, TaskOnce
<1>6. TaskOnce'
  BY <1>1, <1>4, <1>5 DEF TaskOnce
<1> QED
  BY <1>3, <1>6

\* Every other step moves threads and leaves the tasks where they are.
Moves == \/ NotifyOne \/ Stop \/ NotifyAll \/ Join
         \/ \E w \in Worker : Loop(w) \/ Lock(w) \/ TestExit(w) \/ TestSleep(w)
                                \/ Block(w) \/ SpuriousWake(w)

\* Such a step preserves the invariant.
LEMMA MovesInv == IInv /\ Moves => IInv'
<1> SUFFICES ASSUME IInv, Moves PROVE IInv'
  OBVIOUS
<1> USE ThreadPoolAssumption
    DEF IInv, Moves, NotifyOne, Stop, NotifyAll, Join, Loop, Lock, TestExit,
        TestSleep, Block, SpuriousWake, Goto, Waiting
<1>1. UNCHANGED <<tasks, job, todo, done>>
  OBVIOUS
<1>2. TypeOK'
  BY DEF TypeOK, WorkerPc, OwnerPc
<1>3. JobsInHand'
  BY DEF TypeOK, JobsInHand
<1>4. LockHeld'
  BY DEF TypeOK, LockHeld
<1>5. TaskOnce'
  BY <1>1 DEF TaskOnce, Queued, Taken
<1> QED
  BY <1>2, <1>3, <1>4, <1>5

\* Every step preserves the invariant.
LEMMA InvNext == IInv /\ [Next]_vars => IInv'
<1> SUFFICES ASSUME IInv, [Next]_vars PROVE IInv'
  OBVIOUS
<1>1. CASE UNCHANGED vars
  BY <1>1 DEF vars, IInv, TypeOK, JobsInHand, LockHeld, TaskOnce, Queued, Taken
<1>2. CASE Enqueue
  BY <1>2, EnqueueInv
<1>3. ASSUME NEW w \in Worker, TestTake(w) PROVE IInv'
  BY <1>3, TestTakeInv
<1>4. ASSUME NEW w \in Worker, Return(w) PROVE IInv'
  BY <1>4, ReturnInv
<1>5. CASE Moves
  BY <1>5, MovesInv
<1> QED
  BY <1>1, <1>2, <1>3, <1>4, <1>5 DEF Next, OwnerStep, WorkerStep, Moves

\* Whatever the number of workers and tasks, and even while the destructor
\* clears _run without the lock, a committed task is in one place only: in
\* the queue, in one worker's hands or done (lines 51-75 and 89-108).
THEOREM TasksRunOnce == Spec => []TaskOnce
<1>1. IInv => TaskOnce
  BY DEF IInv
<1> QED
  BY <1>1, InitInv, InvNext, PTL DEF Spec

\* The pool's queue, the workers' states and the tasks in their hands keep
\* their types, also while the pool is destroyed.
THEOREM PoolTypes == Spec => []TypeOK
<1>1. IInv => TypeOK
  BY DEF IInv
<1> QED
  BY <1>1, InitInv, InvNext, PTL DEF Spec

-----------------------------------------------------------------------------
Asleep == {w \in Worker : pc[w] \in {"block", "waiting"}}
Coins  == Cardinality(Coming) + (IF opc = "notify" THEN 1 ELSE 0)

\* The workers on their way to the queue can be counted.
LEMMA ComingFinite == /\ IsFiniteSet(Coming) /\ Cardinality(Coming) \in Nat
                      /\ IsFiniteSet(Coming)' /\ Cardinality(Coming)' \in Nat
<1>1. Coming \subseteq Worker /\ Coming' \subseteq Worker
  BY DEF Coming
<1> QED
  BY <1>1, ThreadPoolAssumption, FS_Subset, FS_CardinalityType

\* A set is not larger than one that contains it.
LEMMA Grows == Coming \subseteq Coming' =>
                   Cardinality(Coming) <= Cardinality(Coming')
  BY ComingFinite, FS_Subset

\* A step that queues nothing and stops nobody on its way strands nothing.
LEMMA NoFewer == ASSUME IInv, NoStrandedTask, UNCHANGED tasks,
                        Coming \subseteq Coming', opc = "notify" => opc' = "notify",
                        Asleep' \subseteq Asleep
                 PROVE  NoStrandedTask'
<1>1. Len(tasks) \in Nat
  BY DEF IInv, TypeOK
<1> QED
  BY <1>1, Grows, ComingFinite DEF NoStrandedTask, Asleep

\* The condition variable loses no notification.
LEMMA StrandedNext == IInv /\ NoStrandedTask /\ [Next]_vars => NoStrandedTask'
<1> SUFFICES ASSUME IInv, NoStrandedTask, [Next]_vars PROVE NoStrandedTask'
  OBVIOUS
<1> USE ThreadPoolAssumption
<1>0. Len(tasks) \in Nat /\ (tasks = <<>> => Len(tasks) = 0)
  BY DEF IInv, TypeOK
<1>1. CASE UNCHANGED vars
  BY <1>1, NoFewer DEF vars, Coming, Asleep
<1>2. CASE Enqueue
  <2>1. /\ UNCHANGED pc /\ opc = "ready" /\ opc' = "notify"
        /\ Len(tasks') = Len(tasks) + 1
    BY <1>2 DEF Enqueue, IInv, TypeOK
  <2>2. Coming' = Coming
    BY <2>1 DEF Coming
  <2> QED
    BY <1>0, <2>1, <2>2, ComingFinite DEF NoStrandedTask
<1>3. CASE NotifyOne
  <2>1. CASE Waiting = {} /\ UNCHANGED pc
    <3>1. \A w \in Worker : pc'[w] \in {"block", "waiting"} => tasks = <<>>
      BY <2>1 DEF Waiting, IInv, LockHeld
    <3>2. tasks' = tasks
      BY <1>3 DEF NotifyOne
    <3> QED
      BY <1>0, <3>1, <3>2, ComingFinite DEF NoStrandedTask
  <2>2. ASSUME NEW w \in Waiting, pc' = [pc EXCEPT ![w] = "lock"]
        PROVE  NoStrandedTask'
    <3>1. w \in Worker /\ pc[w] = "waiting" /\ tasks' = tasks
          /\ opc = "notify" /\ opc' = "ready"
      BY <1>3, <2>2 DEF Waiting, NotifyOne
    <3>2. Coming' = Coming \cup {w} /\ w \notin Coming
      BY <2>2, <3>1 DEF Coming, IInv, TypeOK
    <3>3. Cardinality(Coming') = Cardinality(Coming) + 1
      BY <3>2, ComingFinite, FS_AddElement
    <3> QED
      BY <1>0, <3>1, <3>3, ComingFinite DEF NoStrandedTask
  <2> QED
    BY <1>3, <2>1, <2>2 DEF NotifyOne
<1>4. CASE Stop \/ NotifyAll \/ Join
  <2>1. UNCHANGED tasks /\ opc # "notify"
    BY <1>4 DEF Stop, NotifyAll, Join
  <2>2. Coming \subseteq Coming' /\ Asleep' \subseteq Asleep
    BY <1>4 DEF Stop, NotifyAll, Join, Coming, Asleep, Waiting
  <2> QED
    BY <2>1, <2>2, NoFewer
<1>5. ASSUME NEW w \in Worker,
             Loop(w) \/ Lock(w) \/ Return(w) \/ SpuriousWake(w)
      PROVE  NoStrandedTask'
  <2>1. UNCHANGED <<tasks, opc>>
    BY <1>5 DEF Loop, Lock, Return, SpuriousWake
  <2>2. Coming \subseteq Coming' /\ Asleep' \subseteq Asleep
    BY <1>5 DEF Loop, Lock, Return, SpuriousWake, Goto, Coming, Asleep,
                IInv, TypeOK
  <2> QED
    BY <2>1, <2>2, NoFewer
<1>6. ASSUME NEW w \in Worker, TestTake(w) PROVE NoStrandedTask'
  <2>1. /\ pc[w] = "test" /\ pc' = [pc EXCEPT ![w] = "exec"]
        /\ Len(tasks') = Len(tasks) - 1 /\ UNCHANGED opc
    BY <1>6 DEF TestTake, Goto, IInv, TypeOK
  <2>2. Coming' = Coming \ {w} /\ w \in Coming /\ Asleep' = Asleep
    BY <2>1 DEF Coming, Asleep, IInv, TypeOK
  <2>3. Cardinality(Coming') = Cardinality(Coming) - 1
    BY <2>2, ComingFinite, FS_RemoveElement
  <2> QED
    BY <1>0, <2>1, <2>2, <2>3, ComingFinite DEF NoStrandedTask, Asleep
<1>7. ASSUME NEW w \in Worker, TestExit(w) \/ TestSleep(w) \/ Block(w)
      PROVE  NoStrandedTask'
  <2>1. tasks' = <<>>
    BY <1>7 DEF TestExit, TestSleep, Block, Goto, IInv, LockHeld
  <2>2. Len(tasks') = 0
    BY <2>1
  <2> QED
    BY <2>2, ComingFinite DEF NoStrandedTask
<1> QED
  BY <1>1, <1>2, <1>3, <1>4, <1>5, <1>6, <1>7 DEF Next, OwnerStep, WorkerStep

\* A notification may find nobody asleep, be overtaken by a worker that was
\* awake, or come with a spurious wakeup: still no committed task is left in
\* front of sleeping workers with nobody on the way to it (lines 70-73, 96).
THEOREM NoTaskStranded == Spec => []NoStrandedTask
<1>1. Init => NoStrandedTask
  BY DEF Init, NoStrandedTask
<1> QED
  BY <1>1, InitInv, InvNext, StrandedNext, PTL DEF Spec
=============================================================================
