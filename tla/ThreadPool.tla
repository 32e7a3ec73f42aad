----------------------------- MODULE ThreadPool -----------------------------
(***************************************************************************)
(* thread_pool.h: a fixed set of threads that take tasks from one queue    *)
(* under _lock, sleeping on _task_cv while there is none.  The pool is a   *)
(* global of the server: the same thread (main) commits the tasks and, if  *)
(* it calls exit(), runs the destructor, so the two never overlap and      *)
(* commit() never sees _run false (line 54 never throws).                  *)
(*                                                                         *)
(* The destructor clears _run WITHOUT _lock.  A worker evaluates the wait  *)
(* predicate and goes to sleep in two steps of its own (TestSleep, Block), *)
(* atomically only for whoever takes _lock.  THREADPOOL_AUTO_GROW is not   *)
(* defined, so nothing reads _idlThrNum, which is left out.                *)
(***************************************************************************)
EXTENDS Naturals, Sequences, FiniteSets

CONSTANTS Worker,   \* the threads of _pool
          Task,     \* what is committed, each once
          Endless,  \* the tasks that never return (handle_mess_que)
          NULL      \* no thread, no task

ASSUME ThreadPoolAssumption ==
    /\ Endless \subseteq Task
    /\ NULL \notin Worker \cup Task
    /\ IsFiniteSet(Worker)

VARIABLES
    run,     \* _run
    tasks,   \* _tasks
    lock,    \* the worker in a critical section of _lock, or NULL
    pc,      \* where each worker is
    job,     \* the task each worker has taken
    opc,     \* where the owner is
    todo,    \* tasks not committed yet
    done     \* tasks that have returned

vars == <<run, tasks, lock, pc, job, opc, todo, done>>

WorkerPc == {"top", "lock", "test", "block", "waiting", "exec", "done"}
OwnerPc  == {"ready", "notify", "notifyAll", "join", "gone"}

\* addThread: every worker starts at the head of its loop.
Init ==
    /\ run = TRUE
    /\ tasks = <<>>
    /\ lock = NULL
    /\ pc = [w \in Worker |-> "top"]
    /\ job = [w \in Worker |-> NULL]
    /\ opc = "ready"
    /\ todo = Task
    /\ done = {}

Goto(w, from, to) ==
    /\ pc[w] = from
    /\ pc' = [pc EXCEPT ![w] = to]

Waiting == {w \in Worker : pc[w] = "waiting"}

-----------------------------------------------------------------------------
(* commit(): enqueue under _lock, notify after it. *)

\* Mutant: commit() forgets to notify.
EnqueueSilently ==
    /\ opc = "ready"
    /\ run
    /\ lock = NULL
    /\ \E t \in todo :
          /\ tasks' = Append(tasks, t)
          /\ todo' = todo \ {t}
    /\ UNCHANGED <<run, lock, pc, job, opc, done>>

Enqueue ==
    /\ opc = "ready"
    /\ run
    /\ lock = NULL
    /\ \E t \in todo :
          /\ tasks' = Append(tasks, t)
          /\ todo' = todo \ {t}
    /\ opc' = "notify"
    /\ UNCHANGED <<run, lock, pc, job, done>>

NotifyOne ==
    /\ opc = "notify"
    /\ opc' = "ready"
    /\ \/ Waiting = {} /\ UNCHANGED pc
       \/ \E w \in Waiting : pc' = [pc EXCEPT ![w] = "lock"]
    /\ UNCHANGED <<run, tasks, lock, job, todo, done>>

-----------------------------------------------------------------------------
(* ~threadpool() *)

Stop ==
    /\ opc = "ready"
    /\ run' = FALSE
    /\ opc' = "notifyAll"
    /\ UNCHANGED <<tasks, lock, pc, job, todo, done>>

NotifyAll ==
    /\ opc = "notifyAll"
    /\ opc' = "join"
    /\ pc' = [w \in Worker |-> IF w \in Waiting THEN "lock" ELSE pc[w]]
    /\ UNCHANGED <<run, tasks, lock, job, todo, done>>

Join ==
    /\ opc = "join"
    /\ \A w \in Worker : pc[w] = "done"
    /\ opc' = "gone"
    /\ UNCHANGED <<run, tasks, lock, pc, job, todo, done>>

-----------------------------------------------------------------------------
(* A worker's loop. *)

\* while (_run)
Loop(w) ==
    /\ Goto(w, "top", IF run THEN "lock" ELSE "done")
    /\ UNCHANGED <<run, tasks, lock, job, opc, todo, done>>

\* Also the re-lock of a worker that wait() lets go.
Lock(w) ==
    /\ Goto(w, "lock", "test")
    /\ lock = NULL
    /\ lock' = w
    /\ UNCHANGED <<run, tasks, job, opc, todo, done>>

\* Mutant: the task is copied and not popped.
TestTakeNoPop(w) ==
    /\ Goto(w, "test", "exec")
    /\ tasks # <<>>
    /\ job' = [job EXCEPT ![w] = Head(tasks)]
    /\ lock' = NULL
    /\ UNCHANGED <<run, tasks, opc, todo, done>>

\* There is a task: take it and release _lock.
TestTake(w) ==
    /\ Goto(w, "test", "exec")
    /\ tasks # <<>>
    /\ job' = [job EXCEPT ![w] = Head(tasks)]
    /\ tasks' = Tail(tasks)
    /\ lock' = NULL
    /\ UNCHANGED <<run, opc, todo, done>>

\* if (!_run && _tasks.empty()) return;
TestExit(w) ==
    /\ Goto(w, "test", "done")
    /\ tasks = <<>>
    /\ ~run
    /\ lock' = NULL
    /\ UNCHANGED <<run, tasks, job, opc, todo, done>>

\* The predicate is false: the worker will sleep, but does not yet.
TestSleep(w) ==
    /\ Goto(w, "test", "block")
    /\ tasks = <<>>
    /\ run
    /\ UNCHANGED <<run, tasks, lock, job, opc, todo, done>>

Block(w) ==
    /\ Goto(w, "block", "waiting")
    /\ lock' = NULL
    /\ UNCHANGED <<run, tasks, job, opc, todo, done>>

\* Mutant: wait() without the predicate.
WakeUntested(w) ==
    /\ Goto(w, "waiting", "exec")
    /\ UNCHANGED <<run, tasks, lock, job, opc, todo, done>>

SpuriousWake(w) ==
    /\ Goto(w, "waiting", "lock")
    /\ UNCHANGED <<run, tasks, lock, job, opc, todo, done>>

\* task() returns, if it ever does.
Return(w) ==
    /\ Goto(w, "exec", "top")
    /\ job[w] \notin Endless
    /\ done' = done \cup {job[w]}
    /\ job' = [job EXCEPT ![w] = NULL]
    /\ UNCHANGED <<run, tasks, lock, opc, todo>>

-----------------------------------------------------------------------------
WorkerStep(w) == Loop(w) \/ Lock(w) \/ TestTake(w) \/ TestExit(w)
                   \/ TestSleep(w) \/ Block(w) \/ Return(w)

OwnerStep == Enqueue \/ NotifyOne \/ Stop \/ NotifyAll \/ Join

Next ==
    \/ OwnerStep
    \/ \E w \in Worker : WorkerStep(w) \/ SpuriousWake(w)

Spec == Init /\ [][Next]_vars

(***************************************************************************)
(* Fairness: threads that can run do, a task that is not endless returns,  *)
(* and a thread that keeps finding _lock free gets it in the end.  Nothing *)
(* forces the owner to commit or to destroy, but what it began it ends.    *)
(***************************************************************************)
Fairness ==
    /\ WF_vars(NotifyOne \/ NotifyAll \/ Join)
    /\ \A w \in Worker :
          /\ SF_vars(Lock(w))
          /\ WF_vars(Loop(w) \/ TestTake(w) \/ TestExit(w) \/ TestSleep(w)
                       \/ Block(w) \/ Return(w))

FairSpec == Spec /\ Fairness

-----------------------------------------------------------------------------
Queued == {tasks[i] : i \in 1..Len(tasks)}
Taken  == {job[w] : w \in Worker} \ {NULL}

(* Types. *)
TypeOK ==
    /\ run \in BOOLEAN
    /\ tasks \in Seq(Task)
    /\ lock \in Worker \cup {NULL}
    /\ pc \in [Worker -> WorkerPc]
    /\ job \in [Worker -> Task \cup {NULL}]
    /\ opc \in OwnerPc
    /\ todo \in SUBSET Task
    /\ done \in SUBSET Task

\* A committed task is run once: the task in the queue, in a worker's hands
\* and done are disjoint, and no two workers take the same one (lines
\* 101-102, and the hand-over through notify_one).
TaskOnce ==
    /\ \A i, j \in 1..Len(tasks) : tasks[i] = tasks[j] => i = j
    /\ \A v, w \in Worker : job[v] = job[w] /\ job[v] # NULL => v = w
    /\ Queued \cap Taken = {}
    /\ (Queued \cup Taken) \cap (todo \cup done) = {}
    /\ todo \cap done = {}

\* No commit is lost on sleeping workers: while some worker sleeps, or is
\* about to, there are at least as many notifications on their way (the
\* owner's, or workers that will test the queue) as tasks in the queue.
Coming == {w \in Worker : pc[w] \in {"lock", "test"}}

NoStrandedTask ==
    (\E w \in Worker : pc[w] \in {"block", "waiting"}) =>
        Len(tasks) <= Cardinality(Coming) + (IF opc = "notify" THEN 1 ELSE 0)

\* As long as the pool runs, a committed task is started, although endless
\* tasks occupy some workers for ever (main.cpp 266-269 commits 8 of them to
\* a pool of 16).
CommittedIsStarted ==
    \A t \in Task : (t \in Queued) ~> (t \in Taken \cup done \/ ~run)

-----------------------------------------------------------------------------
(* What a comment of the destructor says, and the code does not do. *)

\* Line 37: notify_all() "wakes all threads".  Once the destructor has moved
\* on to join, no worker may fall asleep.
AllWoken == opc = "join" => Waiting = {}
=============================================================================
