-------------------------- MODULE RingQueueProofs ---------------------------
(***************************************************************************)
(* RingQueue for any number of producers and consumers and any capacity:   *)
(* the semaphores and the threads between them count every slot once, and  *)
(* keep the two indices apart.                                             *)
(***************************************************************************)
EXTENDS RingQueue, FiniteSetTheorems, SequenceTheorems, TLAPS

\* How many threads of T are at one of the places Q.
At(T, Q) == {t \in T : pc[t] \in Q}
Num(T, Q) == Cardinality(At(T, Q))

\* The slots that are reserved for a producer and not yet passed by pindex_, those
\* it has filled and not yet posted; and the same for consumers.
ToFill   == Num(Producers, {"lock", "write", "advance"})
FilledBy == Num(Producers, {"unlock", "post"})
ToEmpty  == Num(Consumers, {"lock", "read", "advance"})
EmptyBy  == Num(Consumers, {"unlock", "post"})

\* From cindex_ to pindex_: what is in the ring, whoever counts it.
Between == data + FilledBy + ToEmpty

Types ==
  /\ ring \in [Slots -> Task \cup {NoTask}]
  /\ pindex \in Slots /\ cindex \in Slots
  /\ space \in Nat /\ data \in Nat
  /\ pmutex \in Producers \cup {NoThread} /\ cmutex \in Consumers \cup {NoThread}
  /\ pc \in [Threads -> ProducerPlaces \cup ConsumerPlaces]
  /\ item \in [Threads -> Task \cup {NoTask}]

\* The first sum keeps every count within the capacity; the second ties the
\* indices to the counts, once around the ring at most.
Balance == space + data + ToFill + FilledBy + ToEmpty + EmptyBy = Cap
Distance == pindex = cindex + Between \/ pindex = cindex + Between - Cap

IInv == Types /\ Balance /\ Distance

-----------------------------------------------------------------------------

\* A thread set is finite, and so is any part of it.
LEMMA NumType ==
  ASSUME NEW T \in {Producers, Consumers}, NEW Q
  PROVE  IsFiniteSet(At(T, Q)) /\ Num(T, Q) \in Nat
<1>1. IsFiniteSet(T) /\ At(T, Q) \subseteq T
  BY RingQueueAssumption DEF At
<1> QED
  BY <1>1, FS_Subset, FS_CardinalityType DEF Num

\* The four counts are natural numbers.
LEMMA CountsType == ToFill \in Nat /\ FilledBy \in Nat /\ ToEmpty \in Nat /\ EmptyBy \in Nat
  BY NumType DEF ToFill, FilledBy, ToEmpty, EmptyBy

\* A thread that goes into, out of, or neither into nor out of a set of places.
LEMMA NumEnter ==
  ASSUME NEW T \in {Producers, Consumers}, NEW Q, NEW t \in T, NEW place \in Q,
         Types, pc[t] \notin Q, Goto(t, place)
  PROVE  Num(T, Q)' = Num(T, Q) + 1
<1>1. At(T, Q)' = At(T, Q) \cup {t} /\ t \notin At(T, Q)
  BY DEF At, Goto, Types, Threads
<1> QED
  BY <1>1, NumType, FS_AddElement DEF Num

\* A thread that leaves a place makes its count one less.
LEMMA NumLeave ==
  ASSUME NEW T \in {Producers, Consumers}, NEW Q, NEW t \in T, NEW place,
         Types, pc[t] \in Q, place \notin Q, Goto(t, place)
  PROVE  Num(T, Q)' = Num(T, Q) - 1 /\ Num(T, Q) > 0
<1>1. At(T, Q)' = At(T, Q) \ {t} /\ t \in At(T, Q)
  BY DEF At, Goto, Types, Threads
<1> QED
  BY <1>1, NumType, FS_RemoveElement, FS_EmptySet DEF Num

\* A thread that moves elsewhere leaves the count alone.
LEMMA NumStay ==
  ASSUME NEW T \in {Producers, Consumers}, NEW Q, NEW t \in Threads, NEW place,
         Types, t \in T => (pc[t] \in Q <=> place \in Q), Goto(t, place)
  PROVE  Num(T, Q)' = Num(T, Q)
<1>1. At(T, Q)' = At(T, Q)
  BY DEF At, Goto, Types, Threads
<1> QED
  BY <1>1 DEF Num

\* A thread's step leaves the other side's counts alone.
LEMMA OtherSide ==
  ASSUME NEW t \in Threads, NEW place, Types, Goto(t, place)
  PROVE  /\ t \in Producers => ToEmpty' = ToEmpty /\ EmptyBy' = EmptyBy
         /\ t \in Consumers => ToFill' = ToFill /\ FilledBy' = FilledBy
  BY NumStay, RingQueueAssumption DEF ToFill, FilledBy, ToEmpty, EmptyBy

\* The next index, without the remainder.
LEMMA NextIndex ==
  ASSUME NEW i \in Slots
  PROVE  (i + 1) % Cap = (IF i = Cap - 1 THEN 0 ELSE i + 1) /\ (i + 1) % Cap \in Slots
<1>1. CASE i = Cap - 1
  BY <1>1, RingQueueAssumption DEF Slots
<1>2. CASE i # Cap - 1
  BY <1>2, RingQueueAssumption DEF Slots
<1> QED
  BY <1>1, <1>2

-----------------------------------------------------------------------------
(***************************************************************************)
(* Every step keeps the invariant.                                         *)
(***************************************************************************)

\* The initial states satisfy it: every count of threads is zero.
LEMMA RingInit == Init => IInv
<1> SUFFICES ASSUME Init PROVE IInv
  OBVIOUS
<1> USE RingQueueAssumption
<1>1. Types
  BY DEF Init, Types, Slots, Threads, ProducerPlaces, ConsumerPlaces
<1>2. /\ At(Producers, {"lock", "write", "advance"}) = {}
      /\ At(Producers, {"unlock", "post"}) = {}
      /\ At(Consumers, {"lock", "read", "advance"}) = {}
      /\ At(Consumers, {"unlock", "post"}) = {}
  BY DEF Init, At, Threads
<1>3. ToFill = 0 /\ FilledBy = 0 /\ ToEmpty = 0 /\ EmptyBy = 0
  BY <1>2, FS_EmptySet DEF ToFill, FilledBy, ToEmpty, EmptyBy, Num
<1> QED
  BY <1>1, <1>3 DEF Init, IInv, Balance, Distance, Between

\* The steps that move no count: they keep the types, and nobody enters or leaves
\* one of the four groups.
LEMMA QuietStep ==
  ASSUME IInv, Types', NEW t \in Threads, NEW place, Goto(t, place),
         t \in Producers => /\ pc[t] \in {"lock", "write", "advance"} <=> place \in {"lock", "write", "advance"}
                            /\ pc[t] \in {"unlock", "post"} <=> place \in {"unlock", "post"},
         t \in Consumers => /\ pc[t] \in {"lock", "read", "advance"} <=> place \in {"lock", "read", "advance"}
                            /\ pc[t] \in {"unlock", "post"} <=> place \in {"unlock", "post"},
         UNCHANGED <<pindex, cindex, space, data>>
  PROVE  IInv'
<1>1. ToFill' = ToFill
  BY NumStay DEF IInv, ToFill
<1>2. FilledBy' = FilledBy
  BY NumStay DEF IInv, FilledBy
<1>3. ToEmpty' = ToEmpty
  BY NumStay DEF IInv, ToEmpty
<1>4. EmptyBy' = EmptyBy
  BY NumStay DEF IInv, EmptyBy
<1> QED
  BY <1>1, <1>2, <1>3, <1>4 DEF IInv, Balance, Distance, Between

\* Every step of a producer keeps the invariant.
LEMMA RingProducer == ASSUME IInv, NEW p \in Producers, Productor(p) PROVE IInv'
<1> USE RingQueueAssumption, CountsType DEF IInv
<1> p \in Threads /\ p \notin Consumers
  BY DEF Threads
<1> USE DEF Balance, Distance, Between
<1>1. CASE Create(p) \/ LockP(p) \/ Write(p) \/ UnlockP(p)
  <2>1. Types'
    BY <1>1 DEF Create, LockP, Write, UnlockP, Goto, Types, Threads, ProducerPlaces
  <2>2. PICK place : /\ Goto(p, place)
                     /\ \/ pc[p] = "create" /\ place = "wait"
                        \/ pc[p] = "lock" /\ place = "write"
                        \/ pc[p] = "write" /\ place = "advance"
                        \/ pc[p] = "unlock" /\ place = "post"
    BY <1>1 DEF Create, LockP, Write, UnlockP
  <2>3. UNCHANGED <<pindex, cindex, space, data>>
    BY <1>1 DEF Create, LockP, Write, UnlockP
  <2> QED
    BY <2>1, <2>2, <2>3, QuietStep
<1>2. CASE WaitSpace(p)
  <2>1. ToFill' = ToFill + 1
    BY <1>2, NumEnter DEF WaitSpace, ToFill
  <2>2. FilledBy' = FilledBy
    BY <1>2, NumStay DEF WaitSpace, FilledBy
  <2>3. ToEmpty' = ToEmpty /\ EmptyBy' = EmptyBy
    BY <1>2, OtherSide DEF WaitSpace
  <2>4. Types' /\ space' = space - 1 /\ UNCHANGED <<pindex, cindex, data>>
    BY <1>2 DEF WaitSpace, Goto, Types, Threads, ProducerPlaces
  <2> QED
    BY <2>1, <2>2, <2>3, <2>4 DEF Types
<1>3. CASE AdvanceP(p)
  <2>1. ToFill' = ToFill - 1 /\ ToFill > 0
    BY <1>3, NumLeave DEF AdvanceP, ToFill
  <2>2. FilledBy' = FilledBy + 1
    BY <1>3, NumEnter DEF AdvanceP, FilledBy
  <2>3. ToEmpty' = ToEmpty /\ EmptyBy' = EmptyBy
    BY <1>3, OtherSide DEF AdvanceP
  <2>4. Types'
    BY <1>3, NextIndex DEF AdvanceP, Goto, Types, Threads, ProducerPlaces
  <2>5. UNCHANGED <<cindex, space, data>> /\ pindex' = IF pindex = Cap - 1 THEN 0 ELSE pindex + 1
    BY <1>3, NextIndex DEF AdvanceP, Types
  <2>6. Balance'
    BY <2>1, <2>2, <2>3, <2>4, <2>5 DEF Types
  <2>7. Between' = Between + 1 /\ Between + 1 <= Cap /\ Between \in Nat
    BY <2>1, <2>2, <2>3, <2>4, <2>5 DEF Types
  <2>8. Distance'
    BY <2>5, <2>7, Cap \in Nat DEF Types, Slots
  <2> QED
    BY <2>4, <2>6, <2>8
<1>4. CASE PostData(p)
  <2>1. FilledBy' = FilledBy - 1
    BY <1>4, NumLeave DEF PostData, FilledBy
  <2>2. ToFill' = ToFill
    BY <1>4, NumStay DEF PostData, ToFill
  <2>3. ToEmpty' = ToEmpty /\ EmptyBy' = EmptyBy
    BY <1>4, OtherSide DEF PostData
  <2>4. Types' /\ data' = data + 1 /\ UNCHANGED <<pindex, cindex, space>>
    BY <1>4 DEF PostData, Goto, Types, Threads, ProducerPlaces
  <2> QED
    BY <2>1, <2>2, <2>3, <2>4 DEF Types
<1> QED
  BY <1>1, <1>2, <1>3, <1>4 DEF Productor

\* Every step of a consumer keeps the invariant.
LEMMA RingConsumer == ASSUME IInv, NEW c \in Consumers, Consumer(c) PROVE IInv'
<1> USE RingQueueAssumption, CountsType DEF IInv
<1> c \in Threads /\ c \notin Producers
  BY DEF Threads
<1> USE DEF Balance, Distance, Between
<1>1. CASE LockC(c) \/ Read(c) \/ UnlockC(c) \/ Run(c)
  <2>1. Types'
    BY <1>1 DEF LockC, Read, UnlockC, Run, Goto, Types, Threads, ConsumerPlaces
  <2>2. PICK place : /\ Goto(c, place)
                     /\ \/ pc[c] = "lock" /\ place = "read"
                        \/ pc[c] = "read" /\ place = "advance"
                        \/ pc[c] = "unlock" /\ place = "post"
                        \/ pc[c] = "run" /\ place = "wait"
    BY <1>1 DEF LockC, Read, UnlockC, Run
  <2>3. UNCHANGED <<pindex, cindex, space, data>>
    BY <1>1 DEF LockC, Read, UnlockC, Run
  <2> QED
    BY <2>1, <2>2, <2>3, QuietStep
<1>2. CASE WaitData(c)
  <2>1. ToEmpty' = ToEmpty + 1
    BY <1>2, NumEnter DEF WaitData, ToEmpty
  <2>2. EmptyBy' = EmptyBy
    BY <1>2, NumStay DEF WaitData, EmptyBy
  <2>3. ToFill' = ToFill /\ FilledBy' = FilledBy
    BY <1>2, OtherSide DEF WaitData
  <2>4. Types' /\ data' = data - 1 /\ UNCHANGED <<pindex, cindex, space>>
    BY <1>2 DEF WaitData, Goto, Types, Threads, ConsumerPlaces
  <2> QED
    BY <2>1, <2>2, <2>3, <2>4 DEF Types
<1>3. CASE AdvanceC(c)
  <2>1. ToEmpty' = ToEmpty - 1 /\ ToEmpty > 0
    BY <1>3, NumLeave DEF AdvanceC, ToEmpty
  <2>2. EmptyBy' = EmptyBy + 1
    BY <1>3, NumEnter DEF AdvanceC, EmptyBy
  <2>3. ToFill' = ToFill /\ FilledBy' = FilledBy
    BY <1>3, OtherSide DEF AdvanceC
  <2>4. Types'
    BY <1>3, NextIndex DEF AdvanceC, Goto, Types, Threads, ConsumerPlaces
  <2>5. UNCHANGED <<pindex, space, data>> /\ cindex' = IF cindex = Cap - 1 THEN 0 ELSE cindex + 1
    BY <1>3, NextIndex DEF AdvanceC, Types
  <2>6. Balance'
    BY <2>1, <2>2, <2>3, <2>4, <2>5 DEF Types
  <2>7. Between' = Between - 1 /\ Between' \in Nat /\ Between \in Nat
    BY <2>1, <2>2, <2>3, <2>4, <2>5 DEF Types
  <2>8. Distance'
    BY <2>5, <2>7, Cap \in Nat DEF Types, Slots
  <2> QED
    BY <2>4, <2>6, <2>8
<1>4. CASE PostSpace(c)
  <2>1. EmptyBy' = EmptyBy - 1
    BY <1>4, NumLeave DEF PostSpace, EmptyBy
  <2>2. ToEmpty' = ToEmpty
    BY <1>4, NumStay DEF PostSpace, ToEmpty
  <2>3. ToFill' = ToFill /\ FilledBy' = FilledBy
    BY <1>4, OtherSide DEF PostSpace
  <2>4. Types' /\ space' = space + 1 /\ UNCHANGED <<pindex, cindex, data>>
    BY <1>4 DEF PostSpace, Goto, Types, Threads, ConsumerPlaces
  <2> QED
    BY <2>1, <2>2, <2>3, <2>4 DEF Types
<1> QED
  BY <1>1, <1>2, <1>3, <1>4 DEF Consumer

\* Every step keeps the invariant.
LEMMA RingStep == IInv /\ [Next]_vars => IInv'
<1> SUFFICES ASSUME IInv, [Next]_vars PROVE IInv'
  OBVIOUS
<1>1. CASE UNCHANGED vars
  BY <1>1 DEF vars, IInv, Types, Balance, Distance, Between, ToFill, FilledBy, ToEmpty, EmptyBy, Num, At
<1> QED
  BY <1>1, RingProducer, RingConsumer DEF Next

\* The invariant is one of the specification.
LEMMA RingInvariant == Spec => []IInv
  BY RingInit, RingStep, PTL DEF Spec

-----------------------------------------------------------------------------

\* Every variable keeps its type; in particular no semaphore exceeds the capacity.
THEOREM RingTypeCorrect == Spec => []TypeOK
<1>1. IInv => TypeOK
  BY CountsType, RingQueueAssumption DEF IInv, Types, TypeOK, Balance
<1> QED
  BY <1>1, RingInvariant, PTL

\* Two groups without a common thread are counted one after the other.
LEMMA DisjointUnion ==
  ASSUME NEW A, NEW B, IsFiniteSet(A), IsFiniteSet(B), A \cap B = {}
  PROVE  Cardinality(A \cup B) = Cardinality(A) + Cardinality(B)
<1>1. Cardinality(A \cup B) = Cardinality(A) + Cardinality(B) - Cardinality(A \cap B)
  BY FS_Union
<1>2. Cardinality(A \cap B) = 0 /\ Cardinality(A) \in Nat /\ Cardinality(B) \in Nat
  BY FS_EmptySet, FS_CardinalityType
<1> QED
  BY <1>1, <1>2

\* Each slot is counted once, by a semaphore or by the thread that reserved it (P and
\* V of Push and Pop, in whatever order the posts of several threads come).
THEOREM RingTokensBalance == Spec => []TokensBalance
<1>1. IInv => TokensBalance
  <2> SUFFICES ASSUME IInv PROVE TokensBalance
    OBVIOUS
  <2>1. Cardinality(Pushing) = ToFill + FilledBy
    <3>1. Pushing = At(Producers, {"lock", "write", "advance"}) \cup At(Producers, {"unlock", "post"})
      BY DEF Pushing, At
    <3>2. At(Producers, {"lock", "write", "advance"}) \cap At(Producers, {"unlock", "post"}) = {}
      BY DEF At
    <3> QED
      BY <3>1, <3>2, NumType, DisjointUnion DEF ToFill, FilledBy, Num
  <2>2. Cardinality(Popping) = ToEmpty + EmptyBy
    <3>1. Popping = At(Consumers, {"lock", "read", "advance"}) \cup At(Consumers, {"unlock", "post"})
      BY DEF Popping, At
    <3>2. At(Consumers, {"lock", "read", "advance"}) \cap At(Consumers, {"unlock", "post"}) = {}
      BY DEF At
    <3> QED
      BY <3>1, <3>2, NumType, DisjointUnion DEF ToEmpty, EmptyBy, Num
  <2> QED
    BY <2>1, <2>2, CountsType, RingQueueAssumption DEF IInv, Types, Balance, TokensBalance
<1> QED
  BY <1>1, RingInvariant, PTL

\* A producer never writes the slot a consumer reads, although no mutex is common to
\* the two (ringque_[pindex_] of Push and ringque_[cindex_] of Pop).
THEOREM RingNoDataRace == Spec => []NoDataRace
<1>1. IInv => NoDataRace
  <2> SUFFICES ASSUME IInv, NEW p \in Producers, NEW c \in Consumers,
                      pc[p] = "write", pc[c] = "read"
               PROVE  pindex # cindex
    BY DEF NoDataRace
  <2>1. ToFill > 0
    <3>1. p \in At(Producers, {"lock", "write", "advance"})
      BY DEF At
    <3> QED
      BY <3>1, NumType, FS_EmptySet DEF ToFill, Num
  <2>2. ToEmpty > 0
    <3>1. c \in At(Consumers, {"lock", "read", "advance"})
      BY DEF At
    <3> QED
      BY <3>1, NumType, FS_EmptySet DEF ToEmpty, Num
  <2>3. Between > 0 /\ Between < Cap /\ Between \in Nat
    BY <2>1, <2>2, CountsType, RingQueueAssumption DEF IInv, Types, Balance, Between
  <2> QED
    BY <2>3, RingQueueAssumption DEF IInv, Types, Distance, Slots
<1> QED
  BY <1>1, RingInvariant, PTL

-----------------------------------------------------------------------------
(***************************************************************************)
(* RingQueue implements TaskFifo: AdvanceP puts, Read gets.  Here the      *)
(* mutexes matter: one thread of a side at a time moves its index.         *)
(***************************************************************************)

Mutex ==
  /\ \A p \in Producers : pc[p] \in {"write", "advance", "unlock"} <=> pmutex = p
  /\ \A c \in Consumers : pc[c] \in {"read", "advance", "unlock"} <=> cmutex = c

\* What is pushed is a task, also once it is in its slot.
Pushes ==
  \A p \in Producers : /\ pc[p] \in {"wait", "lock", "write"} => item[p] \in Task
                       /\ pc[p] = "advance" => ring[pindex] \in Task

\* The refinement's two facts hold at the start,
LEMMA MutexInit == Init => Mutex /\ Pushes
  BY RingQueueAssumption DEF Init, Mutex, Pushes, Threads

\* and are kept by every step.
LEMMA MutexStep == IInv /\ Mutex /\ Pushes /\ [Next]_vars => Mutex' /\ Pushes'
<1> SUFFICES ASSUME IInv, Mutex, Pushes, [Next]_vars PROVE Mutex' /\ Pushes'
  OBVIOUS
<1> USE RingQueueAssumption DEF IInv, Types, Threads, Mutex, Pushes, Goto
<1>1. ASSUME NEW p \in Producers, Create(p) PROVE Mutex' /\ Pushes'
  BY <1>1 DEF Create
<1>2. ASSUME NEW p \in Producers, WaitSpace(p) \/ PostData(p) PROVE Mutex' /\ Pushes'
  BY <1>2 DEF WaitSpace, PostData
<1>3. ASSUME NEW p \in Producers, LockP(p) PROVE Mutex' /\ Pushes'
  BY <1>3 DEF LockP
<1>4. ASSUME NEW p \in Producers, Write(p) PROVE Mutex' /\ Pushes'
  BY <1>4 DEF Write
<1>5. ASSUME NEW p \in Producers, AdvanceP(p) PROVE Mutex' /\ Pushes'
  BY <1>5 DEF AdvanceP
<1>6. ASSUME NEW p \in Producers, UnlockP(p) PROVE Mutex' /\ Pushes'
  BY <1>6 DEF UnlockP
<1>7. ASSUME NEW c \in Consumers, WaitData(c) \/ PostSpace(c) \/ Run(c) PROVE Mutex' /\ Pushes'
  BY <1>7 DEF WaitData, PostSpace, Run
<1>8. ASSUME NEW c \in Consumers, LockC(c) PROVE Mutex' /\ Pushes'
  BY <1>8 DEF LockC
<1>9. ASSUME NEW c \in Consumers, Read(c) PROVE Mutex' /\ Pushes'
  BY <1>9 DEF Read
<1>10. ASSUME NEW c \in Consumers, AdvanceC(c) PROVE Mutex' /\ Pushes'
  BY <1>10 DEF AdvanceC
<1>11. ASSUME NEW c \in Consumers, UnlockC(c) PROVE Mutex' /\ Pushes'
  BY <1>11 DEF UnlockC
<1>12. CASE UNCHANGED vars
  BY <1>12 DEF vars
<1> QED
  BY <1>1, <1>2, <1>3, <1>4, <1>5, <1>6, <1>7, <1>8, <1>9, <1>10, <1>11, <1>12
  DEF Next, Productor, Consumer

-----------------------------------------------------------------------------

\* A consumer has copied the oldest task and not yet moved the index.
Copied == \E c \in Consumers : pc[c] = "advance"

\* The slots that consumers have emptied and not given back.
Taken == Num(Consumers, {"advance", "unlock", "post"})

\* The tasks in the ring, from the semaphores: those between the indices, but for the
\* one that is copied.
LEMMA FilledFacts ==
  ASSUME IInv, Mutex
  PROVE  /\ Filled \in Nat /\ Filled + ToFill <= Cap
         /\ Filled = IF Copied THEN Between - 1 ELSE Between
         /\ Oldest = IF Copied THEN cindex + 1 ELSE cindex
         /\ Oldest + Filled \in {pindex, pindex + Cap}
<1>1. Filled = Cap - space - ToFill - Taken
  BY DEF Filled, ToFill, Taken, Num, At
<1>2. Taken = Num(Consumers, {"advance"}) + EmptyBy
  <2>1. /\ At(Consumers, {"advance", "unlock", "post"})
             = At(Consumers, {"advance"}) \cup At(Consumers, {"unlock", "post"})
        /\ At(Consumers, {"advance"}) \cap At(Consumers, {"unlock", "post"}) = {}
    BY DEF At
  <2> QED
    BY <2>1, NumType, DisjointUnion DEF EmptyBy, Taken, Num
<1>3. Copied => Num(Consumers, {"advance"}) = 1 /\ ToEmpty > 0
  <2> SUFFICES ASSUME Copied PROVE Num(Consumers, {"advance"}) = 1 /\ ToEmpty > 0
    OBVIOUS
  <2> PICK c \in Consumers : pc[c] = "advance"
    BY DEF Copied
  <2>1. At(Consumers, {"advance"}) = {c}
    BY DEF At, Mutex
  <2>2. c \in At(Consumers, {"lock", "read", "advance"})
    BY DEF At
  <2>3. Num(Consumers, {"advance"}) = 1
    BY <2>1, FS_Singleton DEF Num
  <2>4. ToEmpty > 0
    BY <2>2, NumType, FS_EmptySet DEF ToEmpty, Num
  <2> QED
    BY <2>3, <2>4
<1>4. ~Copied => Num(Consumers, {"advance"}) = 0
  <2>1. ~Copied => At(Consumers, {"advance"}) = {}
    BY DEF Copied, At
  <2> QED
    BY <2>1, FS_EmptySet DEF Num
<1>5. Cap \in Nat /\ space \in Nat /\ data \in Nat /\ cindex \in Nat /\ pindex \in Nat
  BY RingQueueAssumption DEF IInv, Types, Slots
<1>6. Filled = IF Copied THEN Between - 1 ELSE Between
  BY <1>1, <1>2, <1>3, <1>4, <1>5, CountsType DEF IInv, Balance, Between
<1>7. Oldest = IF Copied THEN cindex + 1 ELSE cindex
  BY DEF Oldest, Copied
<1>8. Filled \in Nat /\ Filled + ToFill <= Cap
  BY <1>3, <1>5, <1>6, CountsType DEF IInv, Balance, Between
<1>9. Oldest + Filled \in {pindex, pindex + Cap}
  BY <1>5, <1>6, <1>7, CountsType DEF IInv, Distance, Between
<1> QED
  BY <1>6, <1>7, <1>8, <1>9

\* Remainders within two turns of the ring.
LEMMA Wrap ==
  ASSUME NEW x \in Nat, x < 2 * Cap
  PROVE  x % Cap = (IF x < Cap THEN x ELSE x - Cap) /\ x % Cap \in Slots
<1>1. CASE x < Cap
  BY <1>1, RingQueueAssumption DEF Slots
<1>2. CASE x >= Cap
  BY <1>2, RingQueueAssumption DEF Slots
<1> QED
  BY <1>1, <1>2, RingQueueAssumption

\* The slot of the i-th task of the ring.
SlotOf(i) == (Oldest + i - 1) % Cap

Buf == [i \in 1 .. Filled |-> ring[SlotOf(i)]]

\* The slot of the i-th task, without the modulus.
LEMMA SlotFacts ==
  ASSUME IInv, Mutex, NEW i \in 1 .. Filled + 1, Filled < Cap \/ i <= Filled
  PROVE  /\ SlotOf(i) = (IF Oldest + i - 1 < Cap THEN Oldest + i - 1 ELSE Oldest + i - 1 - Cap)
         /\ SlotOf(i) \in Slots
<1>1. /\ Oldest \in 0 .. Cap /\ Filled \in Nat /\ Filled <= Cap /\ Cap \in Nat \ {0}
  <2>1. Filled \in Nat /\ ToFill \in Nat /\ Filled + ToFill <= Cap
    BY FilledFacts, CountsType
  <2>2. Oldest \in 0 .. Cap
    BY FilledFacts, RingQueueAssumption DEF IInv, Types, Slots
  <2> QED
    BY <2>1, <2>2, RingQueueAssumption
<1> PICK x \in Nat : x = Oldest + i - 1 /\ x < 2 * Cap
  BY <1>1
<1>2. x % Cap = (IF x < Cap THEN x ELSE x - Cap) /\ x % Cap \in Slots
  BY Wrap
<1>3. SlotOf(i) = x % Cap
  BY DEF SlotOf
<1> QED
  BY <1>1, <1>2, <1>3

\* The ring is not written behind the readers' back: the slot at pindex_ is no slot
\* of a task, as long as a producer is on its way to it.
LEMMA NextSlot ==
  ASSUME IInv, Mutex, Filled < Cap
  PROVE  SlotOf(Filled + 1) = pindex /\ \A i \in 1 .. Filled : SlotOf(i) # pindex
<1>1. /\ Filled \in Nat /\ Oldest + Filled \in {pindex, pindex + Cap} /\ pindex \in 0 .. Cap - 1
      /\ Oldest \in Nat /\ Cap \in Nat
  BY FilledFacts, RingQueueAssumption DEF IInv, Types, Slots
<1>2. SlotOf(Filled + 1) = IF Oldest + Filled < Cap THEN Oldest + Filled ELSE Oldest + Filled - Cap
  BY <1>1, SlotFacts
<1>3. ASSUME NEW i \in 1 .. Filled PROVE SlotOf(i) # pindex
  <2>1. SlotOf(i) = IF Oldest + i - 1 < Cap THEN Oldest + i - 1 ELSE Oldest + i - 1 - Cap
    BY <1>1, SlotFacts
  <2> QED
    BY <1>1, <2>1
<1> QED
  BY <1>1, <1>2, <1>3

\* The first task is at cindex_, unless a consumer has just copied that one.
LEMMA FirstSlot ==
  ASSUME IInv, Mutex, ~Copied, Filled > 0
  PROVE  SlotOf(1) = cindex
<1>1. Filled \in Nat /\ Oldest = cindex /\ cindex \in 0 .. Cap - 1 /\ Cap \in Nat
  BY FilledFacts, RingQueueAssumption DEF IInv, Types, Slots
<1>2. SlotOf(1) = IF Oldest + 1 - 1 < Cap THEN Oldest + 1 - 1 ELSE Oldest + 1 - 1 - Cap
  BY <1>1, SlotFacts
<1> QED
  BY <1>1, <1>2

-----------------------------------------------------------------------------

\* A step that leaves the ring, its counts and what consumers hold alone stutters.
LEMMA Stutter ==
  ASSUME UNCHANGED <<ring, Filled, Oldest>>, \A c \in Consumers : item'[c] = item[c]
  PROVE  UNCHANGED Fifo!vars
  BY DEF Fifo!vars

\* A producer's step: only AdvanceP changes what the ring holds.
LEMMA ProducerRefines ==
  ASSUME IInv, Mutex, Pushes, NEW p \in Producers, Productor(p)
  PROVE  Fifo!Put \/ UNCHANGED Fifo!vars
<1> p \in Threads /\ p \notin Consumers
  BY RingQueueAssumption DEF Threads
<1>1. PICK place : Goto(p, place)
  BY DEF Productor, Create, WaitSpace, LockP, Write, AdvanceP, UnlockP, PostData
<1>2. Taken' = Taken
  BY <1>1, NumStay DEF IInv, Taken
<1>3. Oldest' = Oldest
  <2>1. (\E c \in Consumers : pc'[c] = "advance") <=> \E c \in Consumers : pc[c] = "advance"
    BY <1>1 DEF IInv, Types, Goto, Threads
  <2>2. cindex' = cindex
    BY DEF Productor, Create, WaitSpace, LockP, Write, AdvanceP, UnlockP, PostData
  <2> QED
    BY <2>1, <2>2 DEF Oldest
<1>4. \A c \in Consumers : item'[c] = item[c]
  BY DEF Productor, Create, WaitSpace, LockP, Write, AdvanceP, UnlockP, PostData, IInv, Types, Threads
<1>5. Filled = Cap - space - ToFill - Taken /\ Filled' = Cap - space' - ToFill' - Taken'
  BY DEF Filled, ToFill, Taken, Num, At
<1>6. Cap \in Nat /\ space \in Nat /\ ToFill \in Nat /\ Taken \in Nat
  BY NumType, CountsType, RingQueueAssumption DEF Taken, IInv, Types
<1>7. CASE WaitSpace(p)
  <2>1. ToFill' = ToFill + 1
    BY <1>7, NumEnter DEF WaitSpace, ToFill, IInv
  <2>2. space' = space - 1 /\ ring' = ring
    BY <1>7 DEF WaitSpace
  <2>3. Filled' = Filled
    BY <1>2, <1>5, <1>6, <2>1, <2>2
  <2> QED
    BY <1>3, <1>4, <2>2, <2>3, Stutter
<1>8. CASE Create(p) \/ LockP(p) \/ UnlockP(p) \/ PostData(p)
  <2>1. ToFill' = ToFill
    BY <1>8, NumStay DEF Create, LockP, UnlockP, PostData, ToFill, IInv
  <2>2. space' = space /\ ring' = ring
    BY <1>8 DEF Create, LockP, UnlockP, PostData
  <2>3. Filled' = Filled
    BY <1>2, <1>5, <2>1, <2>2
  <2> QED
    BY <1>3, <1>4, <2>2, <2>3, Stutter
<1>9. ASSUME pc[p] \in {"write", "advance"} PROVE Filled \in Nat /\ Filled < Cap
  <2>1. p \in At(Producers, {"lock", "write", "advance"})
    BY <1>9 DEF At
  <2>2. ToFill > 0
    BY <2>1, NumType, FS_EmptySet DEF ToFill, Num
  <2> QED
    BY <1>6, <2>2, FilledFacts
<1>10. CASE Write(p)
  <2>1. ToFill' = ToFill
    BY <1>10, NumStay DEF Write, ToFill, IInv
  <2>2. Filled' = Filled /\ Filled \in Nat
    BY <1>2, <1>5, <1>9, <1>10, <2>1 DEF Write
  <2>3. \A i \in 1 .. Filled : SlotOf(i) # pindex
    BY <1>9, <1>10, NextSlot DEF Write
  <2>4. \A i \in 1 .. Filled : ring'[(Oldest' + i - 1) % Cap] = ring[(Oldest + i - 1) % Cap]
    BY <1>3, <1>10, <2>3 DEF Write, SlotOf, IInv, Types
  <2> QED
    BY <1>4, <2>2, <2>4 DEF Fifo!vars
<1>11. CASE AdvanceP(p)
  <2>1. ToFill' = ToFill - 1 /\ space' = space /\ ring' = ring
    BY <1>11, NumLeave DEF AdvanceP, ToFill, IInv
  <2>2. Filled' = Filled + 1 /\ Filled \in Nat /\ Filled < Cap
    BY <1>2, <1>5, <1>6, <1>9, <1>11, <2>1 DEF AdvanceP
  <2>3. ring[pindex] \in Task /\ SlotOf(Filled + 1) = pindex
    BY <1>11, <2>2, NextSlot DEF AdvanceP, Pushes
  <2>4. Buf' = [i \in 1 .. Filled + 1 |-> ring[SlotOf(i)]]
    BY <1>3, <2>1, <2>2 DEF Buf, SlotOf
  <2>5. \A i \in 1 .. Filled : ring[SlotOf(i)] \in Task \cup {NoTask}
    BY <2>2, SlotFacts DEF IInv, Types
  <2>6. Buf \in Seq(Task \cup {NoTask}) /\ Len(Buf) = Filled
    BY <2>2, <2>5 DEF Buf
  <2>7. Buf' = Append(Buf, ring[pindex])
    <3> DEFINE a == Append(Buf, ring[pindex])
    <3>1. a = [i \in 1 .. Filled + 1 |-> IF i = Filled + 1 THEN ring[pindex] ELSE Buf[i]]
      BY <2>2, <2>3, <2>6
    <3>2. \A i \in 1 .. Filled : Buf[i] = ring[SlotOf(i)]
      BY DEF Buf
    <3>3. \A i \in 1 .. Filled + 1 :
            ring[SlotOf(i)] = IF i = Filled + 1 THEN ring[pindex] ELSE Buf[i]
      BY <2>2, <2>3, <3>2
    <3> QED
      BY <2>4, <3>1, <3>3
  <2>8. Len(Buf) < Cap /\ \E t \in Task : Buf' = Append(Buf, t)
    BY <2>2, <2>3, <2>6, <2>7
  <2>9. [c \in Consumers |-> item'[c]] = [c \in Consumers |-> item[c]]
    BY <1>4
  <2> QED
    BY <2>8, <2>9 DEF Fifo!Put, Buf, SlotOf
<1> QED
  BY <1>7, <1>8, <1>10, <1>11 DEF Productor

\* The rest of a sequence, as a function.
LEMMA TailIs ==
  ASSUME NEW S, NEW s \in Seq(S), s # <<>>
  PROVE  Tail(s) = [i \in 1 .. Len(s) - 1 |-> s[i + 1]]
<1> DEFINE r == [i \in 1 .. Len(s) - 1 |-> s[i + 1]]
<1>1. Tail(s) \in Seq(S) /\ Len(Tail(s)) = Len(s) - 1
  OBVIOUS
<1>2. Len(s) - 1 \in Nat /\ \A i \in 1 .. Len(s) - 1 : s[i + 1] \in S
  OBVIOUS
<1>3. r \in Seq(S) /\ Len(r) = Len(s) - 1
  BY <1>2
<1>4. \A i \in 1 .. Len(s) - 1 : Tail(s)[i] = r[i]
  OBVIOUS
<1> QED
  BY <1>1, <1>3, <1>4, SeqEqual

\* A consumer's step: Read takes the first task, and AdvanceC only says the same by
\* cindex_.
LEMMA ConsumerRefines ==
  ASSUME IInv, Mutex, NEW c \in Consumers, Consumer(c)
  PROVE  Fifo!Get(c) \/ UNCHANGED Fifo!vars
<1> c \in Threads /\ c \notin Producers
  BY RingQueueAssumption DEF Threads
<1>1. PICK place : Goto(c, place)
  BY DEF Consumer, WaitData, LockC, Read, AdvanceC, UnlockC, PostSpace, Run
<1>2. ToFill' = ToFill
  BY <1>1, OtherSide DEF IInv
<1>3. ring' = ring
  BY DEF Consumer, WaitData, LockC, Read, AdvanceC, UnlockC, PostSpace, Run
<1>4. Filled = Cap - space - ToFill - Taken /\ Filled' = Cap - space' - ToFill' - Taken'
  BY DEF Filled, ToFill, Taken, Num, At
<1>5. Cap \in Nat /\ space \in Nat /\ ToFill \in Nat /\ Taken \in Nat
  BY NumType, CountsType, RingQueueAssumption DEF Taken, IInv, Types
<1>6. CASE WaitData(c) \/ LockC(c) \/ UnlockC(c) \/ PostSpace(c) \/ Run(c)
  <2>1. (\E d \in Consumers : pc'[d] = "advance") <=> \E d \in Consumers : pc[d] = "advance"
    <3>1. \A d \in Consumers : pc'[d] = "advance" <=> pc[d] = "advance"
      BY <1>6 DEF IInv, Types, Goto, Threads, WaitData, LockC, UnlockC, PostSpace, Run
    <3> QED
      BY <3>1
  <2>2. Oldest' = Oldest
    BY <1>6, <2>1 DEF Oldest, WaitData, LockC, UnlockC, PostSpace, Run
  <2>3. item' = item
    BY <1>6 DEF WaitData, LockC, UnlockC, PostSpace, Run
  <2>4. Filled' = Filled
    <3>1. CASE PostSpace(c)
      <4>1. Taken' = Taken - 1 /\ space' = space + 1
        BY <3>1, NumLeave DEF PostSpace, Taken, IInv
      <4> QED
        BY <1>2, <1>4, <1>5, <4>1
    <3>2. CASE WaitData(c) \/ LockC(c) \/ UnlockC(c) \/ Run(c)
      <4>1. Taken' = Taken
        BY <3>2, NumStay DEF WaitData, LockC, UnlockC, Run, Taken, IInv
      <4>2. space' = space
        BY <3>2 DEF WaitData, LockC, UnlockC, Run
      <4> QED
        BY <1>2, <1>4, <4>1, <4>2
    <3> QED
      BY <1>6, <3>1, <3>2
  <2> QED
    BY <1>3, <2>2, <2>3, <2>4, Stutter
<1>7. CASE Read(c)
  <2>1. Taken' = Taken + 1 /\ space' = space
    BY <1>7, NumEnter DEF Read, Taken, IInv
  <2>2. ~Copied
    BY <1>7 DEF Copied, Read, Mutex
  <2>3. Filled \in Nat /\ Filled > 0 /\ Filled' = Filled - 1
    <3>1. c \in At(Consumers, {"lock", "read", "advance"})
      BY <1>7 DEF At, Read
    <3>2. ToEmpty > 0
      BY <3>1, NumType, FS_EmptySet DEF ToEmpty, Num
    <3>3. Filled = Between /\ Filled \in Nat
      BY <2>2, FilledFacts
    <3> QED
      BY <1>2, <1>4, <1>5, <2>1, <3>2, <3>3, CountsType DEF Between, IInv, Types
  <2>4. Oldest' = Oldest + 1 /\ Oldest \in Int
    <3>1. pc'[c] = "advance" /\ cindex' = cindex /\ cindex \in Int
      BY <1>7, RingQueueAssumption DEF Read, Goto, Threads, IInv, Types, Slots
    <3> QED
      BY <2>2, <3>1 DEF Oldest, Copied
  <2>5. \A i \in 1 .. Filled : ring[SlotOf(i)] \in Task \cup {NoTask}
    BY <2>3, SlotFacts DEF IInv, Types
  <2>6. Buf \in Seq(Task \cup {NoTask}) /\ Len(Buf) = Filled
    BY <2>3, <2>5 DEF Buf
  <2>7. Buf # <<>> /\ Head(Buf) = ring[cindex]
    BY <2>2, <2>3, <2>6, FirstSlot DEF Buf
  <2>8. Buf' = Tail(Buf)
    <3>1. Tail(Buf) = [i \in 1 .. Filled - 1 |-> Buf[i + 1]]
      BY <2>6, <2>7, TailIs
    <3>2. Buf' = [i \in 1 .. Filled - 1 |-> ring[(Oldest + 1 + i - 1) % Cap]]
      BY <1>3, <2>3, <2>4 DEF Buf, SlotOf
    <3>3. ASSUME NEW i \in 1 .. Filled - 1 PROVE Buf[i + 1] = ring[(Oldest + 1 + i - 1) % Cap]
      <4>1. i + 1 \in 1 .. Filled /\ Oldest + (i + 1) - 1 = Oldest + 1 + i - 1
        BY <2>3, <2>4
      <4> QED
        BY <4>1 DEF Buf, SlotOf
    <3> QED
      BY <3>1, <3>2, <3>3
  <2>9. [d \in Consumers |-> item'[d]] = [[d \in Consumers |-> item[d]] EXCEPT ![c] = ring[cindex]]
    BY <1>7 DEF Read, IInv, Types, Threads
  <2> QED
    BY <2>7, <2>8, <2>9 DEF Fifo!Get, Buf, SlotOf
<1>8. CASE AdvanceC(c)
  <2>1. Taken' = Taken
    BY <1>8, NumStay DEF AdvanceC, Taken, IInv
  <2>2. Filled' = Filled
    BY <1>2, <1>4, <1>8, <2>1 DEF AdvanceC
  <2>3. item' = item
    BY <1>8 DEF AdvanceC
  <2>4. Oldest = cindex + 1
    BY <1>8 DEF AdvanceC, Oldest
  <2>5. Oldest' = IF cindex = Cap - 1 THEN 0 ELSE cindex + 1
    <3>1. \A d \in Consumers : pc'[d] # "advance"
      BY <1>8 DEF AdvanceC, Goto, Mutex, IInv, Types, Threads
    <3>2. cindex' = IF cindex = Cap - 1 THEN 0 ELSE cindex + 1
      BY <1>8, NextIndex DEF AdvanceC, IInv, Types
    <3> QED
      BY <3>1, <3>2 DEF Oldest
  <2>6. ASSUME NEW i \in 1 .. Filled PROVE (Oldest' + i - 1) % Cap = (Oldest + i - 1) % Cap
    <3>1. /\ Filled \in Nat /\ Filled <= Cap /\ i \in Nat /\ i >= 1 /\ i <= Cap
          /\ cindex \in 0 .. Cap - 1 /\ Oldest \in Nat /\ Oldest' \in Nat
      BY <1>5, <2>4, <2>5, FilledFacts DEF IInv, Types, Slots
    <3> PICK x \in Nat : x = Oldest + i - 1 /\ x < 2 * Cap
      BY <1>5, <2>4, <3>1
    <3> PICK y \in Nat : y = Oldest' + i - 1 /\ y < 2 * Cap
      BY <1>5, <2>5, <3>1
    <3>2. /\ x % Cap = IF x < Cap THEN x ELSE x - Cap
          /\ y % Cap = IF y < Cap THEN y ELSE y - Cap
      BY Wrap
    <3>3. (x < Cap /\ y = x) \/ (x >= Cap /\ y = x) \/ (x >= Cap /\ y = x - Cap /\ y < Cap)
      BY <1>5, <2>4, <2>5, <3>1
    <3> QED
      BY <1>5, <3>2, <3>3
  <2> QED
    BY <1>3, <2>2, <2>3, <2>6 DEF Fifo!vars
<1> QED
  BY <1>6, <1>7, <1>8 DEF Consumer

\* The empty ring is the empty buffer.
LEMMA RingInitRefines == Init => Fifo!Init
<1> SUFFICES ASSUME Init PROVE Fifo!Init
  OBVIOUS
<1>1. Filled = Cap - space - ToFill - Taken
  BY DEF Filled, ToFill, Taken, Num, At
<1>2. Filled \in Nat /\ ToFill \in Nat /\ Taken \in Nat
  BY RingInit, MutexInit, FilledFacts, CountsType, NumType DEF Taken
<1>3. Filled = 0
  BY <1>1, <1>2, RingQueueAssumption DEF Init
<1> QED
  BY <1>3 DEF Fifo!Init, Init, Threads

\* Every step of the ring is one of TaskFifo or a stutter.
LEMMA RingStepRefines == IInv /\ Mutex /\ Pushes /\ [Next]_vars => [Fifo!Next]_(Fifo!vars)
<1> SUFFICES ASSUME IInv, Mutex, Pushes, [Next]_vars PROVE [Fifo!Next]_(Fifo!vars)
  OBVIOUS
<1>1. CASE UNCHANGED vars
  BY <1>1, Stutter DEF vars, Filled, Oldest
<1> QED
  BY <1>1, ProducerRefines, ConsumerRefines DEF Next, Fifo!Next

\* The ring is a bounded first-in first-out buffer: nothing is overwritten before it is
\* read, read before it is written, read twice or out of order (Push and Pop), for any
\* number of threads and any capacity.
THEOREM RingIsFifo == Spec => IsFifo
  BY RingInit, RingStep, MutexInit, MutexStep, RingInitRefines, RingStepRefines, PTL
  DEF Spec, IsFifo, Fifo!Spec
=============================================================================
