----------------------------- MODULE BlockQueue -----------------------------
(***************************************************************************)
(* BlockQueue<Task> of Thread/thread_3 and the threads of Main.cpp that    *)
(* use it: one mutex, one condition variable for the producers (p_cond_)   *)
(* and one for the consumers (c_cond_), a bounded queue.                   *)
(***************************************************************************)
EXTENDS Integers, Sequences, FiniteSets

CONSTANTS
  Producers,   \* the threads that run Productor
  Consumers,   \* the threads that run Consumer
  Task,        \* the tasks a producer may create
  NoTask,      \* a default-constructed Task
  NoThread,    \* the mutex is free
  Cap          \* cap_

ASSUME BlockQueueAssumption ==
  /\ Producers \cap Consumers = {}
  /\ NoThread \notin Producers \cup Consumers
  /\ NoTask \notin Task
  /\ Cap \in Nat \ {0}

Threads == Producers \cup Consumers

VARIABLES
  queue,       \* blockqueue_
  owner,       \* the thread that holds mutex_
  pc,          \* pc[t]: the call thread t is about to make
  item         \* item[t]: the Task variable of thread t

vars == <<queue, owner, pc, item>>

ProducerPlaces == {"create", "lock", "check", "push", "signal", "unlock", "asleep", "woken"}
ConsumerPlaces == {"lock", "check", "front", "pop", "signal", "unlock", "asleep", "woken", "run"}

\* The places where a thread holds the mutex.
Critical == {"check", "push", "front", "pop", "signal", "unlock"}

\* The waiters of p_cond_ and of c_cond_.
SleepingProducers == {p \in Producers : pc[p] = "asleep"}
SleepingConsumers == {c \in Consumers : pc[c] = "asleep"}

Init ==
  /\ queue = <<>>
  /\ owner = NoThread
  /\ pc = [t \in Threads |-> IF t \in Producers THEN "create" ELSE "lock"]
  /\ item = [t \in Threads |-> NoTask]

-----------------------------------------------------------------------------

\* pthread_mutex_lock at the head of Push and Pop.
Lock(t) ==
  /\ pc[t] = "lock" /\ owner = NoThread
  /\ owner' = t
  /\ pc' = [pc EXCEPT ![t] = "check"]
  /\ UNCHANGED <<queue, item>>

\* Mutant: if instead of while, a woken thread does not test again.
RelockWithoutTest(t) ==
  /\ pc[t] = "woken" /\ owner = NoThread
  /\ owner' = t
  /\ pc' = [pc EXCEPT ![t] = IF t \in Producers THEN "push" ELSE "front"]
  /\ UNCHANGED <<queue, item>>

\* pthread_cond_wait takes the mutex again before it returns to the while.
Relock(t) ==
  /\ pc[t] = "woken" /\ owner = NoThread
  /\ owner' = t
  /\ pc' = [pc EXCEPT ![t] = "check"]
  /\ UNCHANGED <<queue, item>>

\* pthread_cond_wait lets go of the mutex and goes to sleep in one step.
Wait(t) ==
  /\ pc[t] = "check"
  /\ IF t \in Producers THEN Len(queue) >= Cap ELSE queue = <<>>
  /\ owner' = NoThread
  /\ pc' = [pc EXCEPT ![t] = "asleep"]
  /\ UNCHANGED <<queue, item>>

\* POSIX lets pthread_cond_wait return without a signal.
SpuriousWakeup(t) ==
  /\ pc[t] = "asleep"
  /\ pc' = [pc EXCEPT ![t] = "woken"]
  /\ UNCHANGED <<queue, owner, item>>

\* pthread_cond_signal on the condition variable with these waiters: one of
\* them wakes up, if there is any.
Signal(t, waiters) ==
  /\ pc[t] = "signal"
  /\ \/ waiters = {} /\ pc' = [pc EXCEPT ![t] = "unlock"]
     \/ \E w \in waiters : pc' = [pc EXCEPT ![t] = "unlock", ![w] = "woken"]
  /\ UNCHANGED <<queue, owner, item>>

\* pthread_mutex_unlock, and back to the thread's own loop.
Unlock(t) ==
  /\ pc[t] = "unlock"
  /\ owner' = NoThread
  /\ pc' = [pc EXCEPT ![t] = IF t \in Producers THEN "create" ELSE "run"]
  /\ UNCHANGED <<queue, item>>

-----------------------------------------------------------------------------

\* Mutant: the queue is given a task that was never filled in.
CreateNothing(p) ==
  /\ pc[p] = "create"
  /\ pc' = [pc EXCEPT ![p] = "lock"]
  /\ UNCHANGED <<queue, owner, item>>

\* Productor makes a task.
Create(p) ==
  /\ pc[p] = "create"
  /\ \E t \in Task : item' = [item EXCEPT ![p] = t]
  /\ pc' = [pc EXCEPT ![p] = "lock"]
  /\ UNCHANGED <<queue, owner>>

\* The while of Push is left.
HasRoom(p) ==
  /\ pc[p] = "check" /\ Len(queue) < Cap
  /\ pc' = [pc EXCEPT ![p] = "push"]
  /\ UNCHANGED <<queue, owner, item>>

\* Mutant: a consumer is signalled only when the queue was empty.
PushSignalsFirst(p) ==
  /\ pc[p] = "push"
  /\ queue' = Append(queue, item[p])
  /\ pc' = [pc EXCEPT ![p] = IF queue = <<>> THEN "signal" ELSE "unlock"]
  /\ UNCHANGED <<owner, item>>

Push(p) ==
  /\ pc[p] = "push"
  /\ queue' = Append(queue, item[p])
  /\ pc' = [pc EXCEPT ![p] = "signal"]
  /\ UNCHANGED <<owner, item>>

\* The while of Pop is left.
HasTask(c) ==
  /\ pc[c] = "check" /\ queue # <<>>
  /\ pc' = [pc EXCEPT ![c] = "front"]
  /\ UNCHANGED <<queue, owner, item>>

\* *task = front()
Front(c) ==
  /\ pc[c] = "front"
  /\ item' = [item EXCEPT ![c] = Head(queue)]
  /\ pc' = [pc EXCEPT ![c] = "pop"]
  /\ UNCHANGED <<queue, owner>>

\* Mutant: the producers are not signalled.
PopWithoutSignal(c) ==
  /\ pc[c] = "pop"
  /\ queue' = Tail(queue)
  /\ pc' = [pc EXCEPT ![c] = "unlock"]
  /\ UNCHANGED <<owner, item>>

Pop(c) ==
  /\ pc[c] = "pop"
  /\ queue' = Tail(queue)
  /\ pc' = [pc EXCEPT ![c] = "signal"]
  /\ UNCHANGED <<owner, item>>

\* Consumer runs the task and comes back for another.
Run(c) ==
  /\ pc[c] = "run"
  /\ pc' = [pc EXCEPT ![c] = "lock"]
  /\ UNCHANGED <<queue, owner, item>>

-----------------------------------------------------------------------------

\* One step of a producer, of a consumer.
Productor(p) ==
  \/ Create(p) \/ Lock(p) \/ Relock(p) \/ Wait(p) \/ HasRoom(p) \/ Push(p)
  \/ Signal(p, SleepingConsumers) \/ Unlock(p)

Consumer(c) ==
  \/ Lock(c) \/ Relock(c) \/ Wait(c) \/ HasTask(c) \/ Front(c) \/ Pop(c)
  \/ Signal(c, SleepingProducers) \/ Unlock(c) \/ Run(c)

Next ==
  \/ \E p \in Producers : Productor(p)
  \/ \E c \in Consumers : Consumer(c)
  \/ \E t \in Threads : SpuriousWakeup(t)

Spec == Init /\ [][Next]_vars

\* Every thread that can go on does so, and wakeups without a signal do not
\* come for ever; the mutex need not be fair.
FairSpec ==
  /\ Spec
  /\ <>[][\A t \in Threads : ~SpuriousWakeup(t)]_vars
  /\ \A p \in Producers : WF_vars(Productor(p))
  /\ \A c \in Consumers : WF_vars(Consumer(c))

-----------------------------------------------------------------------------
(***************************************************************************)
(* Properties.                                                             *)
(***************************************************************************)

TypeOK ==
  /\ queue \in Seq(Task)
  /\ owner \in Threads \cup {NoThread}
  /\ pc \in [Threads -> ProducerPlaces \cup ConsumerPlaces]
  /\ \A p \in Producers : pc[p] \in ProducerPlaces
  /\ \A c \in Consumers : pc[c] \in ConsumerPlaces
  /\ item \in [Threads -> Task \cup {NoTask}]

\* Between its test of the queue and its change of it a thread owns the mutex,
\* so what it tested still holds: Push never overfills the queue, Pop never
\* takes from an empty one, and the task it removes is the one it copied.
TestStillHolds ==
  /\ \A t \in Threads : pc[t] \in Critical <=> owner = t
  /\ Len(queue) <= Cap
  /\ \A p \in Producers : /\ pc[p] = "push" => Len(queue) < Cap
                          /\ pc[p] \in {"lock", "check", "push", "asleep", "woken"} =>
                               item[p] \in Task
  /\ \A c \in Consumers : /\ pc[c] \in {"front", "pop"} => queue # <<>>
                          /\ pc[c] = "pop" => item[c] = Head(queue)

\* No signal is lost: while a consumer sleeps, each waiting task has a consumer
\* awake to take it or a producer about to signal; and each free place, while
\* a producer sleeps, a producer awake or a consumer about to signal.
NoLostWakeup ==
  /\ SleepingConsumers # {} =>
       Len(queue) <= Cardinality(Consumers \ SleepingConsumers)
                     + Cardinality({p \in Producers : pc[p] = "signal"})
  /\ SleepingProducers # {} =>
       Cap - Len(queue) <= Cardinality(Producers \ SleepingProducers)
                           + Cardinality({c \in Consumers : pc[c] = "signal"})

\* The queue as the abstract buffer sees it: a task is taken when it is copied.
Waiting == IF \E c \in Consumers : pc[c] = "pop" THEN Tail(queue) ELSE queue

Fifo == INSTANCE TaskFifo WITH
  buf <- Waiting, taken <- [c \in Consumers |-> item[c]]

\* BlockQueue is a bounded first-in first-out buffer: no task is lost, handed
\* out twice or out of order, whatever threads sleep, wake or wake for nothing.
IsFifo == Fifo!Spec

\* ... and it moves: a waiting task is taken, a free place is used.
IsLiveFifo == Fifo!FairSpec
=============================================================================
