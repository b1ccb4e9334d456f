-------------------------- MODULE BlockQueueProofs --------------------------
(***************************************************************************)
(* BlockQueue for any number of producers, consumers and tasks and any     *)
(* capacity: mutual exclusion and the capacity, that no signal is lost,    *)
(* and that it implements the bounded first-in first-out buffer TaskFifo.  *)
(***************************************************************************)
EXTENDS BlockQueue, SequenceTheorems, FiniteSetTheorems, TLAPS

\* What holds in every reachable state.
BInv == TypeOK /\ TestStillHolds

\* The initial states satisfy the invariant.
LEMMA InitBInv == Init => BInv
  BY BlockQueueAssumption
  DEF Init, BInv, TypeOK, TestStillHolds, Threads, ProducerPlaces, ConsumerPlaces, Critical

\* The queue operations keep the type and change the length by one.
LEMMA AppendFacts ==
  ASSUME NEW q \in Seq(Task), NEW x \in Task
  PROVE  /\ Append(q, x) \in Seq(Task)
         /\ Len(Append(q, x)) = Len(q) + 1
         /\ q # <<>> => Head(Append(q, x)) = Head(q)
         /\ q # <<>> => Tail(Append(q, x)) = Append(Tail(q), x)
  OBVIOUS

\* The parts of a sequence that is not empty.
LEMMA TailFacts ==
  ASSUME NEW q \in Seq(Task), q # <<>>
  PROVE  /\ Head(q) \in Task
         /\ Tail(q) \in Seq(Task)
         /\ Len(Tail(q)) = Len(q) - 1
         /\ Len(q) > 0
  OBVIOUS

\* Every step keeps the invariant.
LEMMA NextKeepsBInv == BInv /\ [Next]_vars => BInv'
  <1> SUFFICES ASSUME BInv, [Next]_vars
               PROVE  BInv'
    OBVIOUS
  <1> USE BlockQueueAssumption DEF BInv
  <1>1. ASSUME NEW t \in Threads, Lock(t)
        PROVE  BInv'
    BY <1>1 DEF Lock, TypeOK, TestStillHolds, Threads, ProducerPlaces, ConsumerPlaces, Critical
  <1>2. ASSUME NEW t \in Threads, Relock(t)
        PROVE  BInv'
    BY <1>2 DEF Relock, TypeOK, TestStillHolds, Threads, ProducerPlaces, ConsumerPlaces, Critical
  <1>3. ASSUME NEW t \in Threads, Wait(t)
        PROVE  BInv'
    BY <1>3 DEF Wait, TypeOK, TestStillHolds, Threads, ProducerPlaces, ConsumerPlaces, Critical
  <1>4. ASSUME NEW t \in Threads, SpuriousWakeup(t)
        PROVE  BInv'
    BY <1>4 DEF SpuriousWakeup, TypeOK, TestStillHolds, Threads, ProducerPlaces, ConsumerPlaces, Critical
  <1>5. ASSUME NEW t \in Threads, NEW W \in SUBSET {w \in Threads : pc[w] = "asleep"},
               Signal(t, W)
        PROVE  BInv'
    BY <1>5 DEF Signal, TypeOK, TestStillHolds, Threads, ProducerPlaces, ConsumerPlaces, Critical
  <1>6. ASSUME NEW t \in Threads, Unlock(t)
        PROVE  BInv'
    BY <1>6 DEF Unlock, TypeOK, TestStillHolds, Threads, ProducerPlaces, ConsumerPlaces, Critical
  <1>7. ASSUME NEW p \in Producers, Create(p)
        PROVE  BInv'
    BY <1>7 DEF Create, TypeOK, TestStillHolds, Threads, ProducerPlaces, ConsumerPlaces, Critical
  <1>8. ASSUME NEW p \in Producers, HasRoom(p)
        PROVE  BInv'
    BY <1>8 DEF HasRoom, TypeOK, TestStillHolds, Threads, ProducerPlaces, ConsumerPlaces, Critical
  <1>9. ASSUME NEW p \in Producers, Push(p)
        PROVE  BInv'
    <2>1. item[p] \in Task /\ Len(queue) < Cap
      BY <1>9 DEF Push, TypeOK, TestStillHolds
    <2>2. queue' \in Seq(Task) /\ Len(queue') = Len(queue) + 1
      BY <1>9, <2>1, AppendFacts DEF Push, TypeOK
    <2>3. TypeOK'
      BY <1>9, <2>2 DEF Push, TypeOK, Threads, ProducerPlaces, ConsumerPlaces
    <2>4. TestStillHolds'
      BY <1>9, <2>1, <2>2 DEF Push, TypeOK, TestStillHolds, Threads, Critical
    <2> QED
      BY <2>3, <2>4
  <1>10. ASSUME NEW c \in Consumers, HasTask(c)
         PROVE  BInv'
    BY <1>10 DEF HasTask, TypeOK, TestStillHolds, Threads, ProducerPlaces, ConsumerPlaces, Critical
  <1>11. ASSUME NEW c \in Consumers, Front(c)
         PROVE  BInv'
    BY <1>11, TailFacts DEF Front, TypeOK, TestStillHolds, Threads, ProducerPlaces, ConsumerPlaces, Critical
  <1>12. ASSUME NEW c \in Consumers, Pop(c)
         PROVE  BInv'
    BY <1>12, TailFacts DEF Pop, TypeOK, TestStillHolds, Threads, ProducerPlaces, ConsumerPlaces, Critical
  <1>13. ASSUME NEW c \in Consumers, Run(c)
         PROVE  BInv'
    BY <1>13 DEF Run, TypeOK, TestStillHolds, Threads, ProducerPlaces, ConsumerPlaces, Critical
  <1>14. CASE UNCHANGED vars
    BY <1>14 DEF vars, TypeOK, TestStillHolds
  <1> QED
    BY <1>1, <1>2, <1>3, <1>4, <1>5, <1>6, <1>7, <1>8, <1>9, <1>10, <1>11, <1>12, <1>13, <1>14
    DEF Next, Productor, Consumer, SleepingProducers, SleepingConsumers, Threads

\* Types, mutual exclusion and the capacity hold in every reachable state.
THEOREM BlockQueueInvariant == Spec => []BInv
  BY InitBInv, NextKeepsBInv, PTL DEF Spec

\* Every variable keeps its type.
THEOREM BlockQueueTypeCorrect == Spec => []TypeOK
  <1>1. BInv => TypeOK
    BY DEF BInv
  <1> QED
    BY <1>1, BlockQueueInvariant, PTL

\* What a thread tested under the mutex still holds when it acts on it: the
\* queue is never overfilled, never popped when empty.
THEOREM BlockQueueTestStillHolds == Spec => []TestStillHolds
  <1>1. BInv => TestStillHolds
    BY DEF BInv
  <1> QED
    BY <1>1, BlockQueueInvariant, PTL

-----------------------------------------------------------------------------

\* A step that leaves the queue and the consumers' tasks alone, and moves no
\* consumer to or from "pop", is a stuttering step of the abstract buffer.
LEMMA Stutter ==
  ASSUME queue' = queue, item' = item,
         \A c \in Consumers : pc'[c] = "pop" <=> pc[c] = "pop"
  PROVE  UNCHANGED Fifo!vars
  BY DEF Fifo!vars, Waiting

\* Every step of BlockQueue is a step of the bounded buffer or a stutter:
\* Push puts, Front takes.
LEMMA StepRefines == BInv /\ BInv' /\ [Next]_vars => [Fifo!Next]_(Fifo!vars)
  <1> SUFFICES ASSUME BInv, BInv', [Next]_vars
               PROVE  [Fifo!Next]_(Fifo!vars)
    OBVIOUS
  <1> USE BlockQueueAssumption DEF BInv
  <1>1. ASSUME NEW p \in Producers, Push(p)
        PROVE  Fifo!Put
    <2>1. \A c \in Consumers : pc[c] # "pop" /\ pc'[c] = pc[c]
      BY <1>1 DEF Push, TypeOK, TestStillHolds, Threads, Critical
    <2>2. Waiting = queue /\ Waiting' = Append(queue, item[p])
      BY <1>1, <2>1 DEF Push, Waiting
    <2>3. item[p] \in Task /\ Len(queue) < Cap /\ item' = item
      BY <1>1 DEF Push, TypeOK, TestStillHolds
    <2> QED
      BY <2>2, <2>3 DEF Fifo!Put
  <1>2. ASSUME NEW c \in Consumers, Front(c)
        PROVE  Fifo!Get(c)
    <2>1. \A d \in Consumers : pc[d] # "pop"
      BY <1>2 DEF Front, TypeOK, TestStillHolds, Threads, Critical
    <2>2. pc'[c] = "pop"
      BY <1>2 DEF Front, TypeOK, Threads
    <2>3. Waiting = queue /\ Waiting' = Tail(queue) /\ queue # <<>>
      BY <1>2, <2>1, <2>2 DEF Front, Waiting, TestStillHolds
    <2>4. [d \in Consumers |-> item'[d]]
            = [[d \in Consumers |-> item[d]] EXCEPT ![c] = Head(queue)]
      BY <1>2 DEF Front, TypeOK, Threads
    <2> QED
      BY <2>3, <2>4 DEF Fifo!Get
  <1>3. ASSUME NEW c \in Consumers, Pop(c)
        PROVE  UNCHANGED Fifo!vars
    <2>1. Waiting = Tail(queue)
      BY <1>3 DEF Pop, Waiting
    <2>2. \A d \in Consumers : pc'[d] # "pop"
      BY <1>3 DEF Pop, TypeOK, TestStillHolds, Threads, Critical
    <2>3. Waiting' = Tail(queue)
      BY <1>3, <2>2 DEF Pop, Waiting
    <2> QED
      BY <1>3, <2>1, <2>3 DEF Pop, Fifo!vars
  <1>4. ASSUME NEW p \in Producers, Create(p)
        PROVE  UNCHANGED Fifo!vars
    <2>1. \A c \in Consumers : item'[c] = item[c] /\ pc'[c] = pc[c]
      BY <1>4 DEF Create, TypeOK, Threads
    <2> QED
      BY <1>4, <2>1 DEF Create, Fifo!vars, Waiting
  <1>5. ASSUME NEW t \in Threads, Lock(t) \/ Relock(t) \/ Wait(t) \/ SpuriousWakeup(t) \/ Unlock(t)
        PROVE  UNCHANGED Fifo!vars
    BY <1>5, Stutter DEF Lock, Relock, Wait, SpuriousWakeup, Unlock, TypeOK, Threads
  <1>6. ASSUME NEW t \in Threads, NEW W \in SUBSET {w \in Threads : pc[w] = "asleep"},
               Signal(t, W)
        PROVE  UNCHANGED Fifo!vars
    BY <1>6, Stutter DEF Signal, TypeOK, Threads
  <1>7. ASSUME NEW p \in Producers, HasRoom(p)
        PROVE  UNCHANGED Fifo!vars
    BY <1>7, Stutter DEF HasRoom, TypeOK, Threads
  <1>8. ASSUME NEW c \in Consumers, HasTask(c) \/ Run(c)
        PROVE  UNCHANGED Fifo!vars
    BY <1>8, Stutter DEF HasTask, Run, TypeOK, Threads
  <1>9. CASE UNCHANGED vars
    BY <1>9, Stutter DEF vars
  <1> QED
    BY <1>1, <1>2, <1>3, <1>4, <1>5, <1>6, <1>7, <1>8, <1>9
    DEF Next, Productor, Consumer, SleepingProducers, SleepingConsumers, Threads, Fifo!Next

\* The empty queue is the empty buffer.
LEMMA InitRefines == Init => Fifo!Init
  BY BlockQueueAssumption DEF Init, Fifo!Init, Waiting, Threads

\* BlockQueue implements the bounded first-in first-out buffer.
THEOREM BlockQueueIsFifo == Spec => IsFifo
  <1> QED
    BY InitRefines, StepRefines, BlockQueueInvariant, PTL DEF Spec, IsFifo, Fifo!Spec

-----------------------------------------------------------------------------
(***************************************************************************)
(* No signal is lost.  The two halves of NoLostWakeup are the same claim   *)
(* of who sleeps (T), who signals (U) and what there is to wake up for.    *)
(***************************************************************************)

Awake(T) == {t \in T : pc[t] # "asleep"}
Signalling(U) == {u \in U : pc[u] = "signal"}

Enough(T, U, n) == Awake(T) # T => n <= Cardinality(Awake(T)) + Cardinality(Signalling(U))

\* The property is one claim, made of consumers and of producers.
LEMMA BothHalves ==
  NoLostWakeup <=> /\ Enough(Consumers, Producers, Len(queue))
                   /\ Enough(Producers, Consumers, Cap - Len(queue))
<1>1. /\ Consumers \ SleepingConsumers = Awake(Consumers)
      /\ Producers \ SleepingProducers = Awake(Producers)
      /\ SleepingConsumers # {} <=> Awake(Consumers) # Consumers
      /\ SleepingProducers # {} <=> Awake(Producers) # Producers
  BY DEF SleepingConsumers, SleepingProducers, Awake
<1> QED
  BY <1>1 DEF NoLostWakeup, Enough, Signalling

\* The counted sets of threads are finite.
LEMMA CountsAreFinite ==
  ASSUME NEW T, NEW U, IsFiniteSet(T), IsFiniteSet(U)
  PROVE  /\ IsFiniteSet(Awake(T)) /\ Cardinality(Awake(T)) \in Nat
         /\ IsFiniteSet(Signalling(U)) /\ Cardinality(Signalling(U)) \in Nat
<1>1. Awake(T) \subseteq T /\ Signalling(U) \subseteq U
  BY DEF Awake, Signalling
<1> QED
  BY <1>1, FS_Subset, FS_CardinalityType

\* Nobody falls asleep, nobody forgets his signal, and there is no more to do.
LEMMA StillEnough ==
  ASSUME NEW T, NEW U, IsFiniteSet(T), IsFiniteSet(U), NEW n \in Int, NEW m \in Int, m <= n,
         Enough(T, U, n),
         \A t \in T : pc[t] # "asleep" => pc'[t] # "asleep",
         \A u \in U : pc[u] = "signal" => pc'[u] = "signal"
  PROVE  Awake(T)' # T => m <= Cardinality(Awake(T)') + Cardinality(Signalling(U)')
<1>1. Awake(T) \subseteq Awake(T)' /\ Awake(T)' \subseteq T /\ (Awake(T)' # T => Awake(T) # T)
  BY DEF Awake
<1>2. Signalling(U) \subseteq Signalling(U)' /\ Signalling(U)' \subseteq U
  BY DEF Signalling
<1>3. /\ Cardinality(Awake(T)) <= Cardinality(Awake(T)') /\ Cardinality(Awake(T)') \in Nat
      /\ Cardinality(Signalling(U)) <= Cardinality(Signalling(U)') /\ Cardinality(Signalling(U)') \in Nat
  BY <1>1, <1>2, FS_Subset, FS_CardinalityType
<1>4. Awake(T)' # T => n <= Cardinality(Awake(T)) + Cardinality(Signalling(U))
  BY <1>1 DEF Enough
<1>5. Cardinality(Awake(T)) \in Nat /\ Cardinality(Signalling(U)) \in Nat
  BY CountsAreFinite
<1> QED
  BY <1>3, <1>4, <1>5

\* One thing more to do, and one thread more that will signal it.
LEMMA AnnouncedEnough ==
  ASSUME NEW T, NEW U, IsFiniteSet(T), IsFiniteSet(U), NEW n \in Int, Enough(T, U, n),
         NEW u \in U, pc[u] # "signal",
         \A t \in T : pc'[t] = pc[t],
         \A v \in U : pc'[v] = IF v = u THEN "signal" ELSE pc[v]
  PROVE  Awake(T)' # T => n + 1 <= Cardinality(Awake(T)') + Cardinality(Signalling(U)')
<1>1. Awake(T)' = Awake(T)
  BY DEF Awake
<1>2. Signalling(U)' = Signalling(U) \cup {u} /\ u \notin Signalling(U)
  BY DEF Signalling
<1>3. Cardinality(Signalling(U)') = Cardinality(Signalling(U)) + 1
  BY <1>2, CountsAreFinite, FS_AddElement
<1> QED
  BY <1>1, <1>3, CountsAreFinite DEF Enough

\* A signal that is sent wakes somebody up.
LEMMA SignalledEnough ==
  ASSUME NEW T, NEW U, IsFiniteSet(T), IsFiniteSet(U), NEW n \in Int, Enough(T, U, n),
         NEW u \in U, pc[u] = "signal", NEW w \in T, pc[w] = "asleep",
         \A t \in T : pc'[t] = IF t = w THEN "woken" ELSE pc[t],
         \A v \in U : pc'[v] = IF v = u THEN "unlock" ELSE pc[v]
  PROVE  Awake(T)' # T => n <= Cardinality(Awake(T)') + Cardinality(Signalling(U)')
<1>1. Awake(T)' = Awake(T) \cup {w} /\ w \notin Awake(T) /\ Awake(T) # T
  BY DEF Awake
<1>2. Signalling(U)' = Signalling(U) \ {u} /\ u \in Signalling(U)
  BY DEF Signalling
<1>3. Cardinality(Awake(T)') = Cardinality(Awake(T)) + 1
  BY <1>1, CountsAreFinite, FS_AddElement
<1>4. Cardinality(Signalling(U)') = Cardinality(Signalling(U)) - 1
  BY <1>2, CountsAreFinite, FS_RemoveElement
<1> QED
  BY <1>1, <1>3, <1>4, CountsAreFinite DEF Enough

\* At first nobody sleeps.
LEMMA InitWakeup == Init => NoLostWakeup
  BY BlockQueueAssumption
  DEF Init, NoLostWakeup, SleepingConsumers, SleepingProducers, Threads

\* Every step keeps it; a thread that goes to sleep has found nothing to do.
LEMMA NextKeepsWakeup ==
  ASSUME IsFiniteSet(Producers), IsFiniteSet(Consumers)
  PROVE  BInv /\ BInv' /\ NoLostWakeup /\ [Next]_vars => NoLostWakeup'
<1> SUFFICES ASSUME BInv, BInv', NoLostWakeup, [Next]_vars PROVE NoLostWakeup'
  OBVIOUS
<1> DEFINE n == Len(queue)
           TasksServed == Awake(Consumers)' # Consumers =>
             n' <= Cardinality(Awake(Consumers)') + Cardinality(Signalling(Producers)')
           RoomServed == Awake(Producers)' # Producers =>
             Cap - n' <= Cardinality(Awake(Producers)') + Cardinality(Signalling(Consumers)')
<1>1. Enough(Consumers, Producers, n) /\ Enough(Producers, Consumers, Cap - n)
  BY BothHalves
<1>2. n \in Nat /\ n' \in Nat /\ Cap \in Nat
  BY BlockQueueAssumption DEF BInv, TypeOK
<1>3. TasksServed /\ RoomServed => NoLostWakeup'
  <2>1. /\ (Consumers \ SleepingConsumers)' = Awake(Consumers)'
        /\ (Producers \ SleepingProducers)' = Awake(Producers)'
        /\ SleepingConsumers' # {} <=> Awake(Consumers)' # Consumers
        /\ SleepingProducers' # {} <=> Awake(Producers)' # Producers
    BY DEF SleepingConsumers, SleepingProducers, Awake
  <2> QED
    BY <2>1 DEF NoLostWakeup, Signalling
<1>4. \A p \in Producers : p \notin Consumers
  BY BlockQueueAssumption
<1>5. pc \in [Threads -> ProducerPlaces \cup ConsumerPlaces] /\ Producers \subseteq Threads /\ Consumers \subseteq Threads
  BY DEF BInv, TypeOK, Threads
<1>6. Cardinality(Awake(Consumers)') \in Nat /\ Cardinality(Signalling(Producers)') \in Nat
  <2>1. Awake(Consumers)' \subseteq Consumers /\ Signalling(Producers)' \subseteq Producers
    BY DEF Awake, Signalling
  <2> QED
    BY <2>1, FS_Subset, FS_CardinalityType
<1>7. Cardinality(Awake(Producers)') \in Nat /\ Cardinality(Signalling(Consumers)') \in Nat
  <2>1. Awake(Producers)' \subseteq Producers /\ Signalling(Consumers)' \subseteq Consumers
    BY DEF Awake, Signalling
  <2> QED
    BY <2>1, FS_Subset, FS_CardinalityType
<1> HIDE DEF n
<1>8. ASSUME n' <= n,
             \A c \in Consumers : pc[c] # "asleep" => pc'[c] # "asleep",
             \A p \in Producers : pc[p] = "signal" => pc'[p] = "signal"
      PROVE  TasksServed
  BY <1>1, <1>2, <1>8, StillEnough
<1>9. ASSUME n <= n',
             \A p \in Producers : pc[p] # "asleep" => pc'[p] # "asleep",
             \A c \in Consumers : pc[c] = "signal" => pc'[c] = "signal"
      PROVE  RoomServed
  <2>1. Cap - n \in Int /\ Cap - n' \in Int /\ Cap - n' <= Cap - n
    BY <1>2, <1>9
  <2> QED
    BY <1>1, <1>9, <2>1, StillEnough
<1> HIDE DEF TasksServed, RoomServed
<1>10. ASSUME queue' = queue,
              \A t \in Threads : (pc[t] # "asleep" => pc'[t] # "asleep") /\ (pc[t] = "signal" => pc'[t] = "signal")
       PROVE  NoLostWakeup'
  BY <1>2, <1>3, <1>5, <1>8, <1>9, <1>10 DEF n
<1>11. ASSUME NEW t \in Threads,
              \/ Lock(t) \/ Relock(t) \/ SpuriousWakeup(t) \/ Unlock(t) \/ Create(t) \/ HasRoom(t)
              \/ HasTask(t) \/ Front(t) \/ Run(t)
       PROVE  NoLostWakeup'
  BY <1>5, <1>10, <1>11 DEF Lock, Relock, SpuriousWakeup, Unlock, Create, HasRoom, HasTask, Front, Run
<1>12. ASSUME NEW p \in Producers, Wait(p) PROVE NoLostWakeup'
  <2>1. TasksServed
    BY <1>2, <1>4, <1>5, <1>8, <1>12 DEF Wait, n
  <2>2. RoomServed
    BY <1>2, <1>7, <1>12 DEF Wait, n, RoomServed
  <2> QED
    BY <2>1, <2>2, <1>3
<1>13. ASSUME NEW c \in Consumers, Wait(c) PROVE NoLostWakeup'
  <2>1. RoomServed
    BY <1>2, <1>4, <1>5, <1>9, <1>13 DEF Wait, n
  <2>2. TasksServed
    BY <1>2, <1>4, <1>6, <1>13 DEF Wait, n, TasksServed
  <2> QED
    BY <2>1, <2>2, <1>3
<1>14. ASSUME NEW p \in Producers, Push(p) PROVE NoLostWakeup'
  <2>1. n' = n + 1
    BY <1>14, AppendFacts DEF Push, n, BInv, TypeOK, TestStillHolds
  <2>2. RoomServed
    BY <1>2, <1>4, <1>5, <1>9, <1>14, <2>1 DEF Push
  <2>3. TasksServed
    BY <1>1, <1>2, <1>4, <1>5, <1>14, <2>1, AnnouncedEnough DEF Push, TasksServed
  <2> QED
    BY <2>2, <2>3, <1>3
<1>15. ASSUME NEW c \in Consumers, Pop(c) PROVE NoLostWakeup'
  <2>1. n' = n - 1
    BY <1>15, TailFacts DEF Pop, n, BInv, TypeOK, TestStillHolds
  <2>2. TasksServed
    BY <1>2, <1>4, <1>5, <1>8, <1>15, <2>1 DEF Pop
  <2>3. Cap - n' = (Cap - n) + 1 /\ Cap - n \in Int
    BY <1>2, <2>1
  <2>4. RoomServed
    BY <1>1, <1>4, <1>5, <1>15, <2>3, AnnouncedEnough DEF Pop, RoomServed
  <2> QED
    BY <2>2, <2>4, <1>3
<1>16. ASSUME NEW p \in Producers, Signal(p, SleepingConsumers) PROVE NoLostWakeup'
  <2>1. n' = n
    BY <1>16 DEF Signal, n
  <2>2. RoomServed
    BY <1>2, <1>4, <1>5, <1>9, <1>16, <2>1 DEF Signal, SleepingConsumers
  <2>3. CASE SleepingConsumers = {}
    <3>1. Awake(Consumers)' = Consumers
      BY <1>4, <1>5, <1>16, <2>3 DEF Signal, SleepingConsumers, Awake
    <3> QED
      BY <3>1, <2>2, <1>3 DEF TasksServed
  <2>4. CASE SleepingConsumers # {}
    <3> PICK w \in SleepingConsumers : pc' = [pc EXCEPT ![p] = "unlock", ![w] = "woken"]
      BY <1>16, <2>4 DEF Signal
    <3>1. w \in Consumers /\ pc[w] = "asleep" /\ pc[p] = "signal"
      BY <1>16 DEF Signal, SleepingConsumers
    <3>2. \A t \in Consumers : pc'[t] = IF t = w THEN "woken" ELSE pc[t]
      BY <1>4, <1>5, <3>1
    <3>3. \A v \in Producers : pc'[v] = IF v = p THEN "unlock" ELSE pc[v]
      BY <1>4, <1>5, <3>1
    <3>4. n \in Int
      BY <1>2
    <3>5. Awake(Consumers)' # Consumers =>
            n <= Cardinality(Awake(Consumers)') + Cardinality(Signalling(Producers)')
      BY <1>1, <3>1, <3>2, <3>3, <3>4, SignalledEnough
    <3>6. TasksServed
      BY <2>1, <3>5 DEF TasksServed
    <3> QED
      BY <3>6, <2>2, <1>3
  <2> QED
    BY <2>3, <2>4
<1>17. ASSUME NEW c \in Consumers, Signal(c, SleepingProducers) PROVE NoLostWakeup'
  <2>1. n' = n
    BY <1>17 DEF Signal, n
  <2>2. TasksServed
    BY <1>2, <1>4, <1>5, <1>8, <1>17, <2>1 DEF Signal, SleepingProducers
  <2>3. CASE SleepingProducers = {}
    <3>1. Awake(Producers)' = Producers
      BY <1>4, <1>5, <1>17, <2>3 DEF Signal, SleepingProducers, Awake
    <3> QED
      BY <3>1, <2>2, <1>3 DEF RoomServed
  <2>4. CASE SleepingProducers # {}
    <3> PICK w \in SleepingProducers : pc' = [pc EXCEPT ![c] = "unlock", ![w] = "woken"]
      BY <1>17, <2>4 DEF Signal
    <3>1. w \in Producers /\ pc[w] = "asleep" /\ pc[c] = "signal"
      BY <1>17 DEF Signal, SleepingProducers
    <3>2. \A t \in Producers : pc'[t] = IF t = w THEN "woken" ELSE pc[t]
      BY <1>4, <1>5, <3>1
    <3>3. \A v \in Consumers : pc'[v] = IF v = c THEN "unlock" ELSE pc[v]
      BY <1>4, <1>5, <3>1
    <3>4. Cap - n' = Cap - n /\ Cap - n \in Int
      BY <1>2, <2>1
    <3>5. RoomServed
      BY <1>1, <3>1, <3>2, <3>3, <3>4, SignalledEnough DEF RoomServed
    <3> QED
      BY <3>5, <2>2, <1>3
  <2> QED
    BY <2>3, <2>4
<1>18. CASE UNCHANGED vars
  BY <1>10, <1>18 DEF vars
<1> QED
  BY <1>11, <1>12, <1>13, <1>14, <1>15, <1>16, <1>17, <1>18 DEF Next, Productor, Consumer, Threads

\* No signal is lost (Push and Pop's one pthread_cond_signal each, and the while around
\* pthread_cond_wait), for any finite number of threads and any capacity.
THEOREM BlockQueueNoLostWakeup ==
  ASSUME IsFiniteSet(Producers), IsFiniteSet(Consumers) PROVE Spec => []NoLostWakeup
  BY InitWakeup, NextKeepsWakeup, BlockQueueInvariant, PTL DEF Spec
=============================================================================
