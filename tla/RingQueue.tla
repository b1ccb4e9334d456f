----------------------------- MODULE RingQueue -----------------------------
(***************************************************************************)
(* RingQueue<Task> of Thread/thread_4 and the threads of SemCP.cpp that    *)
(* use it: a ring of cap_ slots, a semaphore that counts the free slots    *)
(* and one that counts the filled ones, a mutex for each index.            *)
(***************************************************************************)
EXTENDS Integers, Sequences, FiniteSets

CONSTANTS
  Producers,   \* the threads that run Productor
  Consumers,   \* the threads that run Consumer
  Task,        \* the tasks a producer may create
  NoTask,      \* a default-constructed Task
  NoThread,    \* the mutex is free
  Cap          \* cap_

ASSUME RingQueueAssumption ==
  /\ Producers \cap Consumers = {}
  /\ NoThread \notin Producers \cup Consumers
  /\ NoTask \notin Task
  /\ Cap \in Nat \ {0}
  /\ IsFiniteSet(Producers) /\ IsFiniteSet(Consumers)

Threads == Producers \cup Consumers
Slots == 0 .. Cap - 1

VARIABLES
  ring,        \* ringque_
  pindex,      \* pindex_
  cindex,      \* cindex_
  space,       \* the value of SpaceSem_
  data,        \* the value of DataSem_
  pmutex,      \* the producer that holds pmutex_
  cmutex,      \* the consumer that holds cmutex_
  pc,          \* pc[t]: the call thread t is about to make
  item         \* item[t]: the Task variable of thread t

vars == <<ring, pindex, cindex, space, data, pmutex, cmutex, pc, item>>

ProducerPlaces == {"create", "wait", "lock", "write", "advance", "unlock", "post"}
ConsumerPlaces == {"wait", "lock", "read", "advance", "unlock", "post", "run"}

Init ==
  /\ ring = [s \in Slots |-> NoTask]
  /\ pindex = 0
  /\ cindex = 0
  /\ space = Cap
  /\ data = 0
  /\ pmutex = NoThread
  /\ cmutex = NoThread
  /\ pc = [t \in Threads |-> IF t \in Producers THEN "create" ELSE "wait"]
  /\ item = [t \in Threads |-> NoTask]

Goto(t, place) == pc' = [pc EXCEPT ![t] = place]

-----------------------------------------------------------------------------
(***************************************************************************)
(* Push.                                                                   *)
(***************************************************************************)

\* Productor makes a task.
Create(p) ==
  /\ pc[p] = "create"
  /\ \E t \in Task : item' = [item EXCEPT ![p] = t]
  /\ Goto(p, "wait")
  /\ UNCHANGED <<ring, pindex, cindex, space, data, pmutex, cmutex>>

\* P(SpaceSem_)
WaitSpace(p) ==
  /\ pc[p] = "wait" /\ space > 0
  /\ space' = space - 1
  /\ Goto(p, "lock")
  /\ UNCHANGED <<ring, pindex, cindex, data, pmutex, cmutex, item>>

\* Mutant: no mutex among producers.
LockPShared(p) ==
  /\ pc[p] = "lock"
  /\ pmutex' = p
  /\ Goto(p, "write")
  /\ UNCHANGED <<ring, pindex, cindex, space, data, cmutex, item>>

LockP(p) ==
  /\ pc[p] = "lock" /\ pmutex = NoThread
  /\ pmutex' = p
  /\ Goto(p, "write")
  /\ UNCHANGED <<ring, pindex, cindex, space, data, cmutex, item>>

\* ringque_[pindex_] = data
Write(p) ==
  /\ pc[p] = "write"
  /\ ring' = [ring EXCEPT ![pindex] = item[p]]
  /\ Goto(p, "advance")
  /\ UNCHANGED <<pindex, cindex, space, data, pmutex, cmutex, item>>

\* Mutant: the index does not wrap.
AdvancePUnwrapped(p) ==
  /\ pc[p] = "advance"
  /\ pindex' = pindex + 1
  /\ Goto(p, "unlock")
  /\ UNCHANGED <<ring, cindex, space, data, pmutex, cmutex, item>>

AdvanceP(p) ==
  /\ pc[p] = "advance"
  /\ pindex' = (pindex + 1) % Cap
  /\ Goto(p, "unlock")
  /\ UNCHANGED <<ring, cindex, space, data, pmutex, cmutex, item>>

UnlockP(p) ==
  /\ pc[p] = "unlock"
  /\ pmutex' = NoThread
  /\ Goto(p, "post")
  /\ UNCHANGED <<ring, pindex, cindex, space, data, cmutex, item>>

\* V(DataSem_)
PostData(p) ==
  /\ pc[p] = "post"
  /\ data' = data + 1
  /\ Goto(p, "create")
  /\ UNCHANGED <<ring, pindex, cindex, space, pmutex, cmutex, item>>

-----------------------------------------------------------------------------
(***************************************************************************)
(* Pop.                                                                    *)
(***************************************************************************)

\* Mutant: sem_trywait instead of sem_wait, its result ignored.
WaitDataTry(c) ==
  /\ pc[c] = "wait"
  /\ data' = IF data > 0 THEN data - 1 ELSE 0
  /\ Goto(c, "lock")
  /\ UNCHANGED <<ring, pindex, cindex, space, pmutex, cmutex, item>>

\* P(DataSem_)
WaitData(c) ==
  /\ pc[c] = "wait" /\ data > 0
  /\ data' = data - 1
  /\ Goto(c, "lock")
  /\ UNCHANGED <<ring, pindex, cindex, space, pmutex, cmutex, item>>

LockC(c) ==
  /\ pc[c] = "lock" /\ cmutex = NoThread
  /\ cmutex' = c
  /\ Goto(c, "read")
  /\ UNCHANGED <<ring, pindex, cindex, space, data, pmutex, item>>

\* *data = ringque_[cindex_]
Read(c) ==
  /\ pc[c] = "read"
  /\ item' = [item EXCEPT ![c] = ring[cindex]]
  /\ Goto(c, "advance")
  /\ UNCHANGED <<ring, pindex, cindex, space, data, pmutex, cmutex>>

AdvanceC(c) ==
  /\ pc[c] = "advance"
  /\ cindex' = (cindex + 1) % Cap
  /\ Goto(c, "unlock")
  /\ UNCHANGED <<ring, pindex, space, data, pmutex, cmutex, item>>

UnlockC(c) ==
  /\ pc[c] = "unlock"
  /\ cmutex' = NoThread
  /\ Goto(c, "post")
  /\ UNCHANGED <<ring, pindex, cindex, space, data, pmutex, item>>

\* Mutant: the consumer posts no free slot.
PostNothing(c) ==
  /\ pc[c] = "post"
  /\ Goto(c, "run")
  /\ UNCHANGED <<ring, pindex, cindex, space, data, pmutex, cmutex, item>>

\* V(SpaceSem_)
PostSpace(c) ==
  /\ pc[c] = "post"
  /\ space' = space + 1
  /\ Goto(c, "run")
  /\ UNCHANGED <<ring, pindex, cindex, data, pmutex, cmutex, item>>

\* Consumer runs the task and comes back for another.
Run(c) ==
  /\ pc[c] = "run"
  /\ Goto(c, "wait")
  /\ UNCHANGED <<ring, pindex, cindex, space, data, pmutex, cmutex, item>>

-----------------------------------------------------------------------------

Productor(p) ==
  \/ Create(p) \/ WaitSpace(p) \/ LockP(p) \/ Write(p) \/ AdvanceP(p)
  \/ UnlockP(p) \/ PostData(p)

Consumer(c) ==
  \/ WaitData(c) \/ LockC(c) \/ Read(c) \/ AdvanceC(c) \/ UnlockC(c)
  \/ PostSpace(c) \/ Run(c)

Next == \/ \E p \in Producers : Productor(p)
        \/ \E c \in Consumers : Consumer(c)

Spec == Init /\ [][Next]_vars

\* Every thread that can go on does so; semaphores and mutexes need not be fair.
FairSpec ==
  /\ Spec
  /\ \A p \in Producers : WF_vars(Productor(p))
  /\ \A c \in Consumers : WF_vars(Consumer(c))

-----------------------------------------------------------------------------
(***************************************************************************)
(* Properties.                                                             *)
(***************************************************************************)

TypeOK ==
  /\ ring \in [Slots -> Task \cup {NoTask}]
  /\ pindex \in Slots /\ cindex \in Slots
  /\ space \in 0 .. Cap /\ data \in 0 .. Cap
  /\ pmutex \in Producers \cup {NoThread} /\ cmutex \in Consumers \cup {NoThread}
  /\ pc \in [Threads -> ProducerPlaces \cup ConsumerPlaces]
  /\ item \in [Threads -> Task \cup {NoTask}]

\* The threads that hold a token they took and have not posted on.
Pushing == {p \in Producers : pc[p] \in {"lock", "write", "advance", "unlock", "post"}}
Popping == {c \in Consumers : pc[c] \in {"lock", "read", "advance", "unlock", "post"}}

\* Each slot is counted exactly once: by a semaphore or by the thread that has
\* reserved it.
TokensBalance == space + data + Cardinality(Pushing) + Cardinality(Popping) = Cap

\* The two mutexes do not exclude each other, the semaphores do: a producer
\* never writes the slot a consumer reads.
NoDataRace ==
  \A p \in Producers, c \in Consumers :
    pc[p] = "write" /\ pc[c] = "read" => pindex # cindex

\* Tasks written and not yet read: the slots that are neither free nor
\* reserved by a producer that has not filled its slot, nor by a consumer that
\* has emptied it.
Filled == Cap - space
          - Cardinality({p \in Producers : pc[p] \in {"lock", "write", "advance"}})
          - Cardinality({c \in Consumers : pc[c] \in {"advance", "unlock", "post"}})

\* The slot the next reader reads.
Oldest == IF \E c \in Consumers : pc[c] = "advance" THEN cindex + 1 ELSE cindex

Fifo == INSTANCE TaskFifo WITH
  buf <- [i \in 1 .. Filled |-> ring[(Oldest + i - 1) % Cap]],
  taken <- [c \in Consumers |-> item[c]]

\* RingQueue is a bounded first-in first-out buffer: no slot is overwritten
\* before it is read, none is read before it is written, none is read twice,
\* and the order is kept, however the posts of several threads are ordered.
IsFifo == Fifo!Spec

\* ... and it moves: a waiting task is taken, a free slot is used.
IsLiveFifo == Fifo!FairSpec
=============================================================================
