----------------------------- MODULE ThreadPool -----------------------------
(***************************************************************************)
(* Thread/thread_4/ThreadPool.hpp: worker threads over an unbounded queue  *)
(* of tasks, one mutex and one condition variable.  EchoServer uses its    *)
(* operations for the singleton pool of Net/2.Net.                         *)
(*                                                                         *)
(* Each critical section is one step: nothing outside it looks at the      *)
(* queue, and pthread_cond_wait releases the mutex as it goes to sleep.    *)
(***************************************************************************)
EXTENDS Integers, Sequences, FiniteSets

CONSTANTS
  Workers,     \* the threads of threads_
  Task,        \* what is pushed
  MaxTasks     \* bound: the tasks main lets pile up

VARIABLES
  tasks,       \* taskpool_
  worker,      \* worker[w]: "new", "ready" for the mutex, "waiting" on cond_, "busy"
  job          \* job[w]: the task worker w is on, as a set of at most one

vars == <<tasks, worker, job>>

Init ==
  /\ tasks = <<>>
  /\ worker = [w \in Workers |-> "new"]
  /\ job = [w \in Workers |-> {}]

Started == \A w \in Workers : worker[w] # "new"
Waiting == {w \in Workers : worker[w] = "waiting"}
Ready == {w \in Workers : worker[w] = "ready"}

\* One turn of Start's loop.
Start(w) ==
  /\ worker[w] = "new"
  /\ worker' = [worker EXCEPT ![w] = "ready"]
  /\ UNCHANGED <<tasks, job>>

\* Mutant: the signal is only sent when the queue was empty.
PushSignalFirst(t) ==
  /\ tasks' = Append(tasks, t)
  /\ IF Waiting = {} \/ tasks # <<>> THEN UNCHANGED worker
     ELSE \E w \in Waiting : worker' = [worker EXCEPT ![w] = "ready"]
  /\ UNCHANGED job

\* Lock, push, signal, unlock.
Push(t) ==
  /\ tasks' = Append(tasks, t)
  /\ IF Waiting = {} THEN UNCHANGED worker
     ELSE \E w \in Waiting : worker' = [worker EXCEPT ![w] = "ready"]
  /\ UNCHANGED job

\* CarryTask with the mutex: sleep while the queue is empty, else pop.
Take(w) ==
  /\ worker[w] = "ready"
  /\ IF tasks = <<>>
     THEN worker' = [worker EXCEPT ![w] = "waiting"] /\ UNCHANGED <<tasks, job>>
     ELSE /\ worker' = [worker EXCEPT ![w] = "busy"]
          /\ job' = [job EXCEPT ![w] = {Head(tasks)}]
          /\ tasks' = Tail(tasks)

SpuriousWakeup(w) ==
  /\ worker[w] = "waiting"
  /\ worker' = [worker EXCEPT ![w] = "ready"]
  /\ UNCHANGED <<tasks, job>>

\* The task's operator() has returned.
Finish(w) ==
  /\ worker[w] = "busy"
  /\ worker' = [worker EXCEPT ![w] = "ready"]
  /\ job' = [job EXCEPT ![w] = {}]
  /\ UNCHANGED tasks

\* main of ThreadPool.cpp: start the pool, then push tasks for ever.
Produce(t) == Started /\ Len(tasks) < MaxTasks /\ Push(t)

Next ==
  \/ \E t \in Task : Produce(t)
  \/ \E w \in Workers : Start(w) \/ Take(w) \/ SpuriousWakeup(w) \/ Finish(w)

Spec == Init /\ [][Next]_vars

-----------------------------------------------------------------------------

TypeOK ==
  /\ tasks \in Seq(Task)
  /\ worker \in [Workers -> {"new", "ready", "waiting", "busy"}]
  /\ job \in [Workers -> SUBSET Task]

\* While anybody sleeps there is an awake worker for every waiting task, on its
\* way to the queue: no signal is lost, whoever takes whose task, and a busy
\* worker only runs a task it has really taken.
WorkersMatchTasks ==
  /\ Waiting # {} => Len(tasks) <= Cardinality(Ready)
  /\ \A w \in Workers : worker[w] = "busy" <=> job[w] # {}
=============================================================================
