---------------------------- MODULE ServersProofs ----------------------------
(***************************************************************************)
(* The specification Servers for any constants: the thread pools, the      *)
(* dictionary and the echo server, and with ConnectionProofs all of it.    *)
(* Every server has an inductive invariant of its own, and the steps of    *)
(* another leave its variables alone.                                      *)
(***************************************************************************)
EXTENDS ConnectionProofs

\* The instances count alike.
LEMMA SameCount ==
  \A S : /\ Pool!Cardinality(S) = Cardinality(S) /\ Echo!Pool!Cardinality(S) = Cardinality(S)
         /\ Echo!Cardinality(S) = Cardinality(S) /\ Http!Cardinality(S) = Cardinality(S)
  BY DEF Pool!Cardinality, Echo!Pool!Cardinality, Echo!Cardinality, Http!Cardinality, Cardinality

(***************************************************************************)
(* Both thread pools.  The facts are stated of any queue, workers and      *)
(* jobs: the pool of thread_4 and the singleton pool of the echo server    *)
(* are two of them.                                                        *)
(***************************************************************************)
Awake(W, wk) == {w \in W : wk[w] = "ready"}
Asleep(W, wk) == {w \in W : wk[w] = "waiting"}

PoolFacts(W, T, q, wk, jb) ==
  /\ q \in Seq(T) /\ wk \in [W -> {"new", "ready", "waiting", "busy"}] /\ jb \in [W -> SUBSET T]
  /\ Asleep(W, wk) # {} => Len(q) <= Cardinality(Awake(W, wk))
  /\ \A w \in W : wk[w] = "busy" <=> jb[w] # {}

\* A worker that wakes up adds one to those that are awake.
LEMMA WakingCounts ==
  ASSUME NEW W, IsFiniteSet(W), NEW wk \in [W -> {"new", "ready", "waiting", "busy"}],
         NEW w \in W, wk[w] # "ready"
  PROVE  /\ Cardinality(Awake(W, wk)) \in Nat
         /\ Cardinality(Awake(W, [wk EXCEPT ![w] = "ready"])) = Cardinality(Awake(W, wk)) + 1
<1>1. Awake(W, [wk EXCEPT ![w] = "ready"]) = Awake(W, wk) \cup {w} /\ w \notin Awake(W, wk)
  BY DEF Awake
<1>2. IsFiniteSet(Awake(W, wk))
  BY FS_Subset DEF Awake
<1> QED
  BY <1>1, <1>2, FS_AddElement, FS_CardinalityType

\* A worker that sleeps or starts on a task takes one from them.
LEMMA LeavingCounts ==
  ASSUME NEW W, IsFiniteSet(W), NEW wk \in [W -> {"new", "ready", "waiting", "busy"}],
         NEW w \in W, wk[w] = "ready", NEW to \in {"waiting", "busy"}
  PROVE  /\ Cardinality(Awake(W, wk)) \in Nat \ {0}
         /\ Cardinality(Awake(W, [wk EXCEPT ![w] = to])) = Cardinality(Awake(W, wk)) - 1
<1>1. Awake(W, [wk EXCEPT ![w] = to]) = Awake(W, wk) \ {w} /\ w \in Awake(W, wk)
  BY DEF Awake
<1>2. IsFiniteSet(Awake(W, wk))
  BY FS_Subset DEF Awake
<1> QED
  BY <1>1, <1>2, FS_RemoveElement, FS_EmptySet, FS_CardinalityType

\* Push's one signal wakes a sleeper, if there is one, for the new task.
LEMMA PushKeeps ==
  ASSUME NEW W, IsFiniteSet(W), NEW T, NEW q, NEW wk, NEW jb, PoolFacts(W, T, q, wk, jb),
         NEW t \in T, NEW new,
         \/ Asleep(W, wk) = {} /\ new = wk
         \/ \E w \in Asleep(W, wk) : new = [wk EXCEPT ![w] = "ready"]
  PROVE  PoolFacts(W, T, Append(q, t), new, jb)
<1>1. Len(q) \in Nat /\ Len(Append(q, t)) = Len(q) + 1 /\ Append(q, t) \in Seq(T)
  BY DEF PoolFacts
<1>2. CASE Asleep(W, wk) = {} /\ new = wk
  BY <1>1, <1>2 DEF PoolFacts
<1>3. ASSUME NEW w \in Asleep(W, wk), new = [wk EXCEPT ![w] = "ready"]
      PROVE  PoolFacts(W, T, Append(q, t), new, jb)
  <2>1. w \in W /\ wk[w] = "waiting" /\ wk \in [W -> {"new", "ready", "waiting", "busy"}]
    BY <1>3 DEF Asleep, PoolFacts
  <2>2. Cardinality(Awake(W, new)) = Cardinality(Awake(W, wk)) + 1 /\ Cardinality(Awake(W, wk)) \in Nat
    BY <1>3, <2>1, WakingCounts
  <2>3. Len(q) <= Cardinality(Awake(W, wk))
    BY <1>3 DEF PoolFacts
  <2> QED
    BY <1>1, <1>3, <2>1, <2>2, <2>3 DEF PoolFacts
<1> QED
  BY <1>2, <1>3

\* A worker with the mutex sleeps on an empty queue only, and takes a task with it when
\* it is no longer there for another one.
LEMMA TakeKeeps ==
  ASSUME NEW W, IsFiniteSet(W), NEW T, NEW q, NEW wk, NEW jb, PoolFacts(W, T, q, wk, jb),
         NEW w \in W, wk[w] = "ready"
  PROVE  /\ q = <<>> => PoolFacts(W, T, q, [wk EXCEPT ![w] = "waiting"], jb)
         /\ q # <<>> => PoolFacts(W, T, Tail(q), [wk EXCEPT ![w] = "busy"], [jb EXCEPT ![w] = {Head(q)}])
<1> DEFINE slept == [wk EXCEPT ![w] = "waiting"]
           took == [wk EXCEPT ![w] = "busy"]
<1>0. wk \in [W -> {"new", "ready", "waiting", "busy"}] /\ q \in Seq(T) /\ jb \in [W -> SUBSET T]
  BY DEF PoolFacts
<1>1. ASSUME q = <<>> PROVE PoolFacts(W, T, q, slept, jb)
  <2>1. Len(q) = 0
    BY <1>1
  <2>2. Cardinality(Awake(W, slept)) = Cardinality(Awake(W, wk)) - 1 /\ Cardinality(Awake(W, wk)) \in Nat \ {0}
    BY <1>0, LeavingCounts
  <2> QED
    BY <1>0, <2>1, <2>2 DEF PoolFacts
<1>2. ASSUME q # <<>> PROVE PoolFacts(W, T, Tail(q), took, [jb EXCEPT ![w] = {Head(q)}])
  <2>1. Head(q) \in T /\ Tail(q) \in Seq(T) /\ Len(q) \in Nat /\ Len(Tail(q)) = Len(q) - 1
    BY <1>0, <1>2
  <2>2. Cardinality(Awake(W, took)) = Cardinality(Awake(W, wk)) - 1 /\ Cardinality(Awake(W, wk)) \in Nat \ {0}
    BY <1>0, LeavingCounts
  <2>3. Asleep(W, took) = Asleep(W, wk)
    BY <1>0 DEF Asleep
  <2>4. Asleep(W, took) # {} => Len(Tail(q)) <= Cardinality(Awake(W, took))
    <3>1. Asleep(W, wk) # {} => Len(q) <= Cardinality(Awake(W, wk))
      BY DEF PoolFacts
    <3> HIDE DEF took
    <3> QED
      BY <2>1, <2>2, <2>3, <3>1
  <2>5. \A v \in W : took[v] = "busy" <=> [jb EXCEPT ![w] = {Head(q)}][v] # {}
    BY <1>0 DEF PoolFacts
  <2> QED
    BY <1>0, <2>1, <2>4, <2>5 DEF PoolFacts
<1> QED
  BY <1>1, <1>2

\* Start, a spurious wakeup and the end of a task: one more is awake.
LEMMA WakeKeeps ==
  ASSUME NEW W, IsFiniteSet(W), NEW T, NEW q, NEW wk, NEW jb, PoolFacts(W, T, q, wk, jb),
         NEW w \in W, wk[w] # "ready", NEW new, new = jb \/ new = [jb EXCEPT ![w] = {}],
         wk[w] = "busy" => new = [jb EXCEPT ![w] = {}]
  PROVE  PoolFacts(W, T, q, [wk EXCEPT ![w] = "ready"], new)
<1> DEFINE woken == [wk EXCEPT ![w] = "ready"]
<1>1. wk \in [W -> {"new", "ready", "waiting", "busy"}] /\ q \in Seq(T) /\ jb \in [W -> SUBSET T] /\ Len(q) \in Nat
  BY DEF PoolFacts
<1>2. Cardinality(Awake(W, woken)) = Cardinality(Awake(W, wk)) + 1 /\ Cardinality(Awake(W, wk)) \in Nat
  BY <1>1, WakingCounts
<1>3. Asleep(W, woken) # {} => Len(q) <= Cardinality(Awake(W, woken))
  <2>1. Asleep(W, woken) # {} => Asleep(W, wk) # {}
    BY <1>1 DEF Asleep
  <2>2. Asleep(W, wk) # {} => Len(q) <= Cardinality(Awake(W, wk))
    BY DEF PoolFacts
  <2> HIDE DEF woken
  <2> QED
    BY <1>1, <1>2, <2>1, <2>2
<1>4. new \in [W -> SUBSET T] /\ \A v \in W : woken[v] = "busy" <=> new[v] # {}
  BY <1>1 DEF PoolFacts
<1> QED
  BY <1>1, <1>3, <1>4 DEF PoolFacts

PoolInv == Pool!TypeOK /\ Pool!WorkersMatchTasks

\* The invariant, said of any pool.
LEMMA PoolInvFacts ==
  /\ PoolInv <=> PoolFacts(PoolWorkers, Task, queue, thread, duty)
  /\ PoolInv' <=> PoolFacts(PoolWorkers, Task, queue', thread', duty')
<1>1. Pool!Waiting = Asleep(PoolWorkers, thread) /\ Pool!Ready = Awake(PoolWorkers, thread)
  BY DEF Asleep, Awake, Pool!Waiting, Pool!Ready
<1>2. Pool!Waiting' = Asleep(PoolWorkers, thread') /\ Pool!Ready' = Awake(PoolWorkers, thread')
  BY DEF Asleep, Awake, Pool!Waiting, Pool!Ready
<1> QED
  BY <1>1, <1>2, SameCount, Zenon DEF PoolInv, PoolFacts, Pool!TypeOK, Pool!WorkersMatchTasks

\* No task waits in the initial states.
LEMMA PoolInit == Pool!Init => PoolInv
  BY DEF Pool!Init, PoolInv, Pool!TypeOK, Pool!WorkersMatchTasks, Pool!Waiting

\* The invariant is inductive.
LEMMA PoolStep == IsFiniteSet(PoolWorkers) /\ PoolInv /\ [Pool!Next]_poolVars => PoolInv'
<1> SUFFICES ASSUME IsFiniteSet(PoolWorkers), PoolFacts(PoolWorkers, Task, queue, thread, duty), [Pool!Next]_poolVars
             PROVE  PoolFacts(PoolWorkers, Task, queue', thread', duty')
  BY PoolInvFacts
<1>1. ASSUME NEW t \in Task, Pool!Produce(t) PROVE PoolFacts(PoolWorkers, Task, queue', thread', duty')
  <2>1. queue' = Append(queue, t) /\ duty' = duty
    BY <1>1 DEF Pool!Produce, Pool!Push
  <2>2. \/ Asleep(PoolWorkers, thread) = {} /\ thread' = thread
        \/ \E w \in Asleep(PoolWorkers, thread) : thread' = [thread EXCEPT ![w] = "ready"]
    BY <1>1 DEF Pool!Produce, Pool!Push, Pool!Waiting, Asleep
  <2>3. PoolFacts(PoolWorkers, Task, Append(queue, t), thread', duty)
    BY <2>2, PushKeeps
  <2> QED
    BY <2>1, <2>3
<1>2. ASSUME NEW w \in PoolWorkers, Pool!Take(w) PROVE PoolFacts(PoolWorkers, Task, queue', thread', duty')
  <2>1. thread[w] = "ready"
    BY <1>2 DEF Pool!Take
  <2>2. /\ queue = <<>> => PoolFacts(PoolWorkers, Task, queue, [thread EXCEPT ![w] = "waiting"], duty)
        /\ queue # <<>> => PoolFacts(PoolWorkers, Task, Tail(queue), [thread EXCEPT ![w] = "busy"],
                                     [duty EXCEPT ![w] = {Head(queue)}])
    BY <2>1, TakeKeeps
  <2> QED
    BY <1>2, <2>2 DEF Pool!Take
<1>3. ASSUME NEW w \in PoolWorkers, Pool!Start(w) \/ Pool!SpuriousWakeup(w) \/ Pool!Finish(w)
      PROVE  PoolFacts(PoolWorkers, Task, queue', thread', duty')
  BY <1>3, WakeKeeps DEF Pool!Start, Pool!SpuriousWakeup, Pool!Finish
<1>4. CASE UNCHANGED poolVars
  BY <1>4 DEF poolVars
<1> QED
  BY <1>1, <1>2, <1>3, <1>4 DEF Pool!Next

-----------------------------------------------------------------------------
(***************************************************************************)
(* The dictionary, whatever is in its file: a word has the meaning of the  *)
(* first line that gives one.                                              *)
(***************************************************************************)
LinesUpTo(n, x) == {i \in 1 .. n : Len(Lines[i]) = 2 /\ Lines[i][1] = x}

Loads(g, n) == g = [m \in 0 .. n |-> IF m = 0 THEN <<>> ELSE Echo!InsertLine(g[m - 1], Lines[m])]

\* Reading the file line by line comes to an end.
LEMMA LoadEnds == ASSUME NEW L \in Nat PROVE \E g : Loads(g, L)
<1> DEFINE Bad == {n \in Nat : ~ \E g : Loads(g, n)}
<1>1. SUFFICES ASSUME Bad # {} PROVE FALSE
  OBVIOUS
<1>2. PICK n \in Bad : \A m \in Bad : n <= m
  <2>1. Bad \in SUBSET Nat
    OBVIOUS
  <2> QED
    BY <1>1, <2>1, Smallest
<1>3. n \in Nat /\ ~ \E g : Loads(g, n)
  BY <1>2
<1>4. n # 0
  <2>1. Loads([m \in 0 .. 0 |-> <<>>], 0)
    BY DEF Loads
  <2> QED
    BY <1>3, <2>1
<1>5. n - 1 \in Nat /\ n - 1 \notin Bad
  BY <1>2, <1>3, <1>4
<1>6. PICK g : Loads(g, n - 1)
  BY <1>5
<1> DEFINE h == [m \in 0 .. n |-> IF m = n THEN Echo!InsertLine(g[n - 1], Lines[n]) ELSE g[m]]
<1>7. Loads(h, n)
  <2>1. \A m \in 0 .. n - 1 : g[m] = IF m = 0 THEN <<>> ELSE Echo!InsertLine(g[m - 1], Lines[m])
    BY <1>6 DEF Loads
  <2>2. \A m \in 0 .. n : h[m] = IF m = 0 THEN <<>> ELSE Echo!InsertLine(h[m - 1], Lines[m])
    <3> SUFFICES ASSUME NEW m \in 0 .. n PROVE h[m] = IF m = 0 THEN <<>> ELSE Echo!InsertLine(h[m - 1], Lines[m])
      OBVIOUS
    <3>1. CASE m = 0
      <4>1. 0 \in 0 .. n /\ 0 # n /\ 0 \in 0 .. n - 1
        BY <1>3, <1>4
      <4> QED
        BY <2>1, <3>1, <4>1
    <3>2. CASE m # 0
      <4>1. m - 1 \in 0 .. n /\ m - 1 # n /\ m - 1 \in 0 .. n - 1 /\ (m # n => m \in 0 .. n - 1)
        BY <1>3, <3>2
      <4>2. h[m - 1] = g[m - 1]
        BY <4>1
      <4>3. h[m] = Echo!InsertLine(g[m - 1], Lines[m])
        BY <2>1, <3>2, <4>1
      <4> QED
        BY <3>2, <4>2, <4>3
    <3> QED
      BY <3>1, <3>2
  <2>3. h = [m \in 0 .. n |-> h[m]]
    OBVIOUS
  <2> QED
    BY <2>2, <2>3 DEF Loads
<1> QED
  BY <1>3, <1>7

\* Loaded is what that reading makes of the file.
LEMMA LoadedLoads == Loads(Echo!Loaded, Len(Lines))
<1>1. Len(Lines) \in Nat
  BY EchoAssumption
<1>2. PICK g : Loads(g, Len(Lines))
  BY <1>1, LoadEnds
<1> QED
  BY <1>2 DEF Loads, Echo!Loaded

\* After n lines a word has the meaning of the first of them that gives one.
FirstMeaning(n, x) ==
  /\ LinesUpTo(n, x) = {} => x \notin DOMAIN Echo!Loaded[n]
  /\ \A i \in LinesUpTo(n, x) : (\A j \in LinesUpTo(n, x) : i <= j) =>
       x \in DOMAIN Echo!Loaded[n] /\ Echo!Loaded[n][x] = Lines[i][2]

\* One line more.
LEMMA NextLine ==
  ASSUME NEW n \in 1 .. Len(Lines), NEW x, FirstMeaning(n - 1, x)
  PROVE  FirstMeaning(n, x)
<1> DEFINE dict == Echo!Loaded[n - 1]
           line == Lines[n]
           gives == Len(line) = 2 /\ line[1] = x
<1>1. n \in Nat \ {0} /\ n - 1 \in Nat /\ n - 1 \in 0 .. Len(Lines) /\ n \in 0 .. Len(Lines)
  BY EchoAssumption
<1>2. Echo!Loaded[n] = Echo!InsertLine(dict, line)
  BY <1>1, LoadedLoads DEF Loads
<1>3. \A i : i \in 1 .. n <=> i \in 1 .. n - 1 \/ i = n
  BY <1>1
<1>4. LinesUpTo(n, x) = LinesUpTo(n - 1, x) \cup (IF gives THEN {n} ELSE {})
  BY <1>3, Zenon DEF LinesUpTo
<1>5. LinesUpTo(n - 1, x) \subseteq 1 .. n - 1
  BY Zenon DEF LinesUpTo
<1>6. LinesUpTo(n - 1, x) # {} =>
        \E i \in LinesUpTo(n - 1, x) : \A j \in LinesUpTo(n - 1, x) : i <= j
  <2>1. LinesUpTo(n - 1, x) \in SUBSET Nat
    BY <1>1, <1>5
  <2> QED
    BY <2>1, Smallest
<1>7. CASE gives /\ x \in DOMAIN dict
  <2>1. LinesUpTo(n - 1, x) # {}
    BY <1>7 DEF FirstMeaning
  <2>2. Echo!Loaded[n] = dict
    BY <1>2, <1>7 DEF Echo!InsertLine
  <2>3. LinesUpTo(n, x) = LinesUpTo(n - 1, x) \cup {n}
    BY <1>4, <1>7
  <2>4. ASSUME NEW i \in LinesUpTo(n, x), \A j \in LinesUpTo(n, x) : i <= j
        PROVE  i \in LinesUpTo(n - 1, x) /\ \A j \in LinesUpTo(n - 1, x) : i <= j
    <3>1. PICK j \in LinesUpTo(n - 1, x) : TRUE
      BY <2>1
    <3>2. i <= j /\ j \in 1 .. n - 1
      BY <1>5, <2>3, <2>4, <3>1
    <3>3. i # n
      BY <1>1, <3>2
    <3> QED
      BY <2>3, <2>4, <3>3
  <2>5. ASSUME NEW i \in LinesUpTo(n, x), \A j \in LinesUpTo(n, x) : i <= j
        PROVE  x \in DOMAIN Echo!Loaded[n] /\ Echo!Loaded[n][x] = Lines[i][2]
    BY <2>2, <2>4, <2>5 DEF FirstMeaning
  <2> QED
    BY <2>1, <2>3, <2>5 DEF FirstMeaning
<1>8. CASE gives /\ x \notin DOMAIN dict
  <2>1. LinesUpTo(n, x) = {n}
    BY <1>4, <1>6, <1>8 DEF FirstMeaning
  <2>2. x \in DOMAIN Echo!Loaded[n] /\ Echo!Loaded[n][x] = line[2]
    BY <1>2, <1>8 DEF Echo!InsertLine
  <2> QED
    BY <2>1, <2>2 DEF FirstMeaning
<1>9. CASE ~gives
  <2>1. LinesUpTo(n, x) = LinesUpTo(n - 1, x)
    BY <1>4, <1>9
  <2>2. /\ x \in DOMAIN Echo!Loaded[n] <=> x \in DOMAIN dict
        /\ x \in DOMAIN dict => Echo!Loaded[n][x] = dict[x]
    BY <1>2, <1>9 DEF Echo!InsertLine
  <2> QED
    BY <2>1, <2>2 DEF FirstMeaning
<1> QED
  BY <1>7, <1>8, <1>9

\* By the least line for which it were not so.
LEMMA EveryLine == ASSUME NEW x PROVE FirstMeaning(Len(Lines), x)
<1> DEFINE Bad == {n \in 0 .. Len(Lines) : ~FirstMeaning(n, x)}
<1>1. Len(Lines) \in Nat
  BY EchoAssumption
<1>2. SUFFICES ASSUME Bad # {} PROVE FALSE
  BY <1>1
<1>3. PICK n \in Bad : \A m \in Bad : n <= m
  <2>1. Bad \in SUBSET Nat
    BY <1>1
  <2> QED
    BY <1>2, <2>1, Smallest
<1>4. n \in 0 .. Len(Lines) /\ ~FirstMeaning(n, x)
  BY <1>3
<1>5. n # 0
  <2>1. FirstMeaning(0, x)
    <3>1. 0 \in 0 .. Len(Lines) /\ 1 .. 0 = {}
      BY <1>1
    <3>2. Echo!Loaded[0] = <<>>
      BY <3>1, LoadedLoads DEF Loads
    <3>3. LinesUpTo(0, x) = {}
      BY <3>1, Zenon DEF LinesUpTo
    <3> QED
      BY <3>2, <3>3 DEF FirstMeaning
  <2> QED
    BY <1>4, <2>1
<1>6. n \in 1 .. Len(Lines) /\ n - 1 \in 0 .. Len(Lines) /\ ~(n <= n - 1)
  BY <1>1, <1>4, <1>5
<1>7. FirstMeaning(n - 1, x)
  BY <1>3, <1>6
<1> QED
  BY <1>4, <1>6, <1>7, NextLine

\* Find answers with the first meaning in the file.
LEMMA FindIsMeaning == ASSUME NEW x PROVE Echo!Find(x) = Echo!Meaning(x)
<1> DEFINE at == LinesUpTo(Len(Lines), x)
<1>1. Echo!Meaning(x) = IF at = {} THEN Unvalid ELSE Lines[CHOOSE i \in at : \A j \in at : i <= j][2]
  BY Zenon DEF Echo!Meaning, LinesUpTo
<1>2. FirstMeaning(Len(Lines), x)
  BY EveryLine
<1>3. CASE at = {}
  BY <1>1, <1>2, <1>3 DEF FirstMeaning, Echo!Find, Echo!LoadDict
<1>4. CASE at # {}
  <2>1. 1 .. Len(Lines) \subseteq Nat
    BY EchoAssumption
  <2>2. at \in SUBSET Nat
    BY <2>1, Zenon DEF LinesUpTo
  <2>3. \E i \in at : \A j \in at : i <= j
    BY <1>4, <2>2, Smallest
  <2> DEFINE first == CHOOSE i \in at : \A j \in at : i <= j
  <2>4. first \in at /\ \A j \in at : first <= j
    BY <2>3
  <2>5. x \in DOMAIN Echo!Loaded[Len(Lines)] /\ Echo!Loaded[Len(Lines)][x] = Lines[first][2]
    BY <1>2, <2>4 DEF FirstMeaning
  <2> QED
    BY <1>1, <1>4, <2>5 DEF Echo!Find, Echo!LoadDict
<1> QED
  BY <1>3, <1>4

-----------------------------------------------------------------------------
(***************************************************************************)
(* The echo server and its clients.                                        *)
(***************************************************************************)
OneWord == {<<>>} \cup {<<x>> : x \in STRING}
OneAnswer == {<<>>} \cup {<<Echo!Find(x)>> : x \in STRING \cup {Empty}}

EchoLinks == [up : OneWord, down : OneAnswer, fin : BOOLEAN, hup : BOOLEAN]
EchoUsers == [pc : {"connect", "typing", "reading", "offline", "left"}, cnt : Nat, conn : SUBSET Conns,
              n : Nat, word : STRING \cup {Empty}, answer : OneAnswer, refused : Nat]

EchoTypes ==
  /\ server \in [pc : {"down", "bound", "up"}, crashes : 0 .. MaxCrashes]
  /\ fdtab \in [Fds -> SUBSET Conns] /\ listen \in Seq(Conns)
  /\ word \in [Workers -> OneWord] /\ conn \in [Conns -> EchoLinks] /\ user \in [Clients -> EchoUsers]

\* A connection waits once in the backlog or is behind one descriptor, and has one
\* client at most.
InBacklog(k) == \E i \in 1 .. Len(listen) : listen[i] = k

Places ==
  /\ \A i, j \in 1 .. Len(listen) : listen[i] = listen[j] => i = j
  /\ \A k \in Conns, fd \in Fds : k \in fdtab[fd] => ~InBacklog(k)
  /\ \A f, g \in Fds : \A k \in fdtab[f] : k \in fdtab[g] => f = g
  /\ \A fd \in Fds : \A k, l \in fdtab[fd] : k = l
  /\ \A c, d \in Clients : \A k \in user[c].conn : k \in user[d].conn => c = d

OneConn ==
  \A c \in Clients : IF user[c].pc \in {"typing", "reading"} THEN \E k \in Conns : user[c].conn = {k}
                     ELSE user[c].conn = {}

\* An open descriptor is queued once or served by one worker.
Queued(fd) == \E i \in 1 .. Len(tasks) : tasks[i] = fd

Jobs ==
  /\ \A i, j \in 1 .. Len(tasks) : tasks[i] = tasks[j] => i = j
  /\ \A w \in Workers : \A fd \in job[w] : ~Queued(fd)
  /\ \A w, v \in Workers : \A fd \in job[w] : fd \in job[v] => w = v
  /\ \A w \in Workers : \A f, g \in job[w] : f = g
  /\ \A fd \in Fds : fdtab[fd] # {} <=> Queued(fd) \/ \E w \in Workers : fd \in job[w]

\* Who has closed a connection, and when the kernel has forgotten it.
ServerHas(k) == InBacklog(k) \/ \E fd \in Fds : k \in fdtab[fd]
ClientHas(k) == \E c \in Clients : k \in user[c].conn

Ends ==
  \A k \in Conns :
    /\ ServerHas(k) => ~conn[k].hup /\ conn[k].down = <<>> /\ (conn[k].fin <=> ~ClientHas(k))
    /\ ~ServerHas(k) /\ ClientHas(k) => conn[k].hup /\ ~conn[k].fin
    /\ ~ServerHas(k) /\ ~ClientHas(k) => conn[k] = Echo!Fresh

\* What is on a connection, and with the worker that serves it, is of its own client.
Serves(w, k) == \E fd \in job[w] : k \in fdtab[fd]

OwnWord ==
  /\ \A w \in Workers : job[w] = {} => word[w] = <<>>
  /\ \A c \in Clients : \A k \in user[c].conn :
       /\ user[c].pc = "typing" =>
            /\ conn[k].up = <<>> /\ conn[k].down = <<>>
            /\ \A w \in Workers : Serves(w, k) => word[w] = <<>>
       /\ user[c].pc = "reading" =>
            /\ conn[k].up \in {<<>>, <<user[c].word>>} /\ conn[k].down \in {<<>>, <<Echo!Find(user[c].word)>>}
            /\ \A w \in Workers : Serves(w, k) => word[w] \in {<<>>, <<user[c].word>>}
  /\ \A c \in Clients :
       /\ user[c].pc \in {"typing", "reading"} => user[c].answer = <<>>
       /\ user[c].answer \in {<<>>, <<Echo!Find(user[c].word)>>}

\* The attempts that are left and those that failed in a row.
Attempts ==
  \A c \in Clients :
    /\ user[c].pc \in {"connect", "offline"} => user[c].cnt + user[c].refused >= Retries[c]
    /\ user[c].cnt <= Retries[c]
    /\ user[c].pc = "offline" => user[c].cnt = 0
    /\ user[c].pc # "offline" => user[c].cnt # 0

EchoPool == Echo!Pool!TypeOK /\ Echo!PoolMatchesTasks
EchoRest == EchoTypes /\ Places /\ OneConn /\ Jobs /\ Ends /\ OwnWord /\ Attempts
EchoInv == EchoPool /\ EchoRest

-----------------------------------------------------------------------------
\* The singleton pool is a thread pool, whose tasks are descriptors.
LEMMA EchoPoolFacts ==
  /\ EchoPool <=> PoolFacts(Workers, Fds, tasks, worker, job)
  /\ EchoPool' <=> PoolFacts(Workers, Fds, tasks', worker', job')
<1>1. Echo!Pool!Waiting = Asleep(Workers, worker) /\ Echo!Pool!Ready = Awake(Workers, worker)
  BY DEF Asleep, Awake, Echo!Pool!Waiting, Echo!Pool!Ready
<1>2. Echo!Pool!Waiting' = Asleep(Workers, worker') /\ Echo!Pool!Ready' = Awake(Workers, worker')
  BY DEF Asleep, Awake, Echo!Pool!Waiting, Echo!Pool!Ready
<1> QED
  BY <1>1, <1>2, SameCount, Zenon
  DEF EchoPool, PoolFacts, Echo!Pool!TypeOK, Echo!PoolMatchesTasks, Echo!Pool!WorkersMatchTasks

\* The lowest free descriptor and the lowest free connection.
LEMMA LowestFd ==
  ASSUME Echo!FreeFds # {}
  PROVE  LET fd == CHOOSE x \in Echo!FreeFds : \A y \in Echo!FreeFds : x <= y
         IN fd \in Fds /\ fdtab[fd] = {}
<1>1. Echo!FreeFds \in SUBSET Nat
  BY HttpAssumption DEF Echo!FreeFds
<1>2. \E x \in Echo!FreeFds : \A y \in Echo!FreeFds : x <= y
  BY <1>1, Smallest
<1>3. (CHOOSE x \in Echo!FreeFds : \A y \in Echo!FreeFds : x <= y) \in Echo!FreeFds
  BY <1>2
<1> QED
  BY <1>3 DEF Echo!FreeFds

\* So with connections.
LEMMA LowestConn ==
  ASSUME Echo!FreeConns # {}
  PROVE  LET k == CHOOSE x \in Echo!FreeConns : \A y \in Echo!FreeConns : x <= y
         IN k \in Conns /\ ~ServerHas(k) /\ ~ClientHas(k)
<1>1. Echo!FreeConns \in SUBSET Nat
  BY EchoAssumption DEF Echo!FreeConns
<1>2. \E x \in Echo!FreeConns : \A y \in Echo!FreeConns : x <= y
  BY <1>1, Smallest
<1>3. (CHOOSE x \in Echo!FreeConns : \A y \in Echo!FreeConns : x <= y) \in Echo!FreeConns
  BY <1>2
<1> QED
  BY <1>3 DEF Echo!FreeConns, Echo!Contains, ServerHas, ClientHas, InBacklog

\* The pool of the server keeps the invariant of a thread pool, whatever the clients do.
LEMMA EchoPoolStep == EchoPool /\ [Echo!Next]_echoVars => EchoPool'
<1> SUFFICES ASSUME PoolFacts(Workers, Fds, tasks, worker, job), [Echo!Next]_echoVars
             PROVE  PoolFacts(Workers, Fds, tasks', worker', job')
  BY EchoPoolFacts
<1> USE PoolAssumption
<1>1. CASE UNCHANGED <<tasks, worker, job>>
  BY <1>1
<1>2. CASE Echo!Accept
  <2> DEFINE fd == CHOOSE x \in Echo!FreeFds : \A y \in Echo!FreeFds : x <= y
  <2>1. fd \in Fds
    BY <1>2, LowestFd DEF Echo!Accept
  <2>2. Echo!Pool!Push(fd)
    BY <1>2 DEF Echo!Accept, Echo!Push
  <2> HIDE DEF fd
  <2>3. /\ tasks' = Append(tasks, fd) /\ job' = job
        /\ \/ Asleep(Workers, worker) = {} /\ worker' = worker
           \/ \E w \in Asleep(Workers, worker) : worker' = [worker EXCEPT ![w] = "ready"]
    BY <2>2 DEF Echo!Pool!Push, Echo!Pool!Waiting, Asleep
  <2>4. PoolFacts(Workers, Fds, Append(tasks, fd), worker', job)
    BY <2>1, <2>3, PushKeeps
  <2> QED
    BY <2>3, <2>4
<1>3. CASE Echo!Crash
  <2>1. tasks' = <<>> /\ worker' = [w \in Workers |-> "new"] /\ job' = [w \in Workers |-> {}]
    BY <1>3 DEF Echo!Crash
  <2>2. Asleep(Workers, worker') = {} /\ <<>> \in Seq(Fds)
    BY <2>1 DEF Asleep
  <2> QED
    BY <2>1, <2>2 DEF PoolFacts
<1>4. ASSUME NEW w \in Workers, Echo!Pool!Take(w) PROVE PoolFacts(Workers, Fds, tasks', worker', job')
  <2>1. worker[w] = "ready"
    BY <1>4 DEF Echo!Pool!Take
  <2>2. /\ tasks = <<>> => PoolFacts(Workers, Fds, tasks, [worker EXCEPT ![w] = "waiting"], job)
        /\ tasks # <<>> => PoolFacts(Workers, Fds, Tail(tasks), [worker EXCEPT ![w] = "busy"],
                                     [job EXCEPT ![w] = {Head(tasks)}])
    BY <2>1, TakeKeeps
  <2> QED
    BY <1>4, <2>2 DEF Echo!Pool!Take
<1>5. ASSUME NEW w \in Workers, Echo!Pool!Start(w) \/ Echo!Pool!SpuriousWakeup(w) \/ Echo!Pool!Finish(w)
      PROVE  PoolFacts(Workers, Fds, tasks', worker', job')
  BY <1>5, WakeKeeps DEF Echo!Pool!Start, Echo!Pool!SpuriousWakeup, Echo!Pool!Finish
<1>6. ASSUME NEW w \in Workers, Echo!Worker(w) \/ Echo!SpuriousWakeup(w)
      PROVE  PoolFacts(Workers, Fds, tasks', worker', job')
  <2>1. CASE Echo!TaskRead(w)
    BY <1>1, <2>1 DEF Echo!TaskRead, Echo!poolVars
  <2> QED
    BY <1>4, <1>5, <1>6, <2>1 DEF Echo!Worker, Echo!StartPool, Echo!TakeTask, Echo!TaskEof, Echo!TaskWrite, Echo!SpuriousWakeup
<1>7. CASE Echo!Boot \/ Echo!Daemonize
  BY <1>1, <1>7 DEF Echo!Boot, Echo!Daemonize, Echo!poolVars
<1>8. ASSUME NEW c \in Clients,
             Echo!ConnectOk(c) \/ Echo!ConnectFail(c) \/ Echo!Type(c) \/ Echo!ReadReply(c) \/ Echo!Leave(c)
      PROVE  PoolFacts(Workers, Fds, tasks', worker', job')
  BY <1>1, <1>8 DEF Echo!ConnectOk, Echo!ConnectFail, Echo!Type, Echo!ReadReply, Echo!Leave, Echo!poolVars
<1>9. CASE UNCHANGED echoVars
  BY <1>1, <1>9 DEF echoVars
<1> QED
  BY <1>2, <1>3, <1>6, <1>7, <1>8, <1>9 DEF Echo!Next

\* What a thread that is not busy has: nothing.
LEMMA JobsTyped ==
  ASSUME EchoPool
  PROVE  /\ tasks \in Seq(Fds) /\ job \in [Workers -> SUBSET Fds] /\ worker \in [Workers -> {"new", "ready", "waiting", "busy"}]
         /\ \A w \in Workers : worker[w] = "busy" <=> job[w] # {}
  BY DEF EchoPool, Echo!Pool!TypeOK, Echo!PoolMatchesTasks, Echo!Pool!WorkersMatchTasks

-----------------------------------------------------------------------------

\* The initial states satisfy the invariant.
LEMMA EchoInit == Echo!Init => EchoInv
<1> SUFFICES ASSUME Echo!Init PROVE EchoInv
  OBVIOUS
<1>1. EchoPool
  <2>1. Asleep(Workers, worker) = {} /\ <<>> \in Seq(Fds) /\ tasks = <<>> /\ job = [w \in Workers |-> {}]
        /\ worker = [w \in Workers |-> "new"]
    BY DEF Echo!Init, Echo!Pool!Init, Asleep
  <2> QED
    BY <2>1, EchoPoolFacts DEF PoolFacts
<1>2. EchoTypes
  <2>1. Echo!Fresh \in EchoLinks
    BY DEF Echo!Fresh, EchoLinks, OneWord, OneAnswer
  <2>2. \A c \in Clients :
          [pc |-> "connect", cnt |-> Retries[c], conn |-> {}, n |-> 0, word |-> Empty, answer |-> <<>>, refused |-> 0]
            \in EchoUsers
    BY EchoAssumption DEF EchoUsers, OneAnswer
  <2>3. <<>> \in Seq(Conns) /\ <<>> \in OneWord
    BY DEF OneWord
  <2> QED
    BY <2>1, <2>2, <2>3, EchoAssumption DEF Echo!Init, EchoTypes
<1>3. 1 .. Len(<<>>) = {}
  OBVIOUS
<1>4. tasks = <<>> /\ job = [w \in Workers |-> {}]
  BY DEF Echo!Init, Echo!Pool!Init
<1>5. Places /\ OneConn /\ Jobs
  BY <1>3, <1>4 DEF Echo!Init, Places, InBacklog, OneConn, Jobs, Queued
<1>6. Ends
  BY <1>3 DEF Echo!Init, Ends, ServerHas, ClientHas, InBacklog
<1>7. OwnWord /\ Attempts
  BY EchoAssumption DEF Echo!Init, OwnWord, Attempts
<1> QED
  BY <1>1, <1>2, <1>5, <1>6, <1>7 DEF EchoInv, EchoRest

\* Only the server's state or its workers' changes.
LEMMA EchoStays ==
  ASSUME EchoRest, UNCHANGED <<fdtab, listen, tasks, job, word, conn, user>>,
         server' \in [pc : {"down", "bound", "up"}, crashes : 0 .. MaxCrashes]
  PROVE  EchoRest'
<1>1. EchoTypes'
  BY DEF EchoRest, EchoTypes
<1>2. Places' /\ OneConn' /\ Jobs'
  BY DEF EchoRest, Places, InBacklog, OneConn, Jobs, Queued
<1>3. Ends'
  BY DEF EchoRest, Ends, ServerHas, ClientHas, InBacklog
<1>4. OwnWord' /\ Attempts'
  BY DEF EchoRest, OwnWord, Serves, Attempts
<1> QED
  BY <1>1, <1>2, <1>3, <1>4 DEF EchoRest

\* A worker with the mutex takes the first descriptor, which nobody else has.
LEMMA EchoTakes ==
  ASSUME EchoPool, EchoRest, NEW w \in Workers, Echo!TakeTask(w)
  PROVE  EchoRest'
<1> EchoTypes /\ Places /\ OneConn /\ Jobs /\ Ends /\ OwnWord /\ Attempts
  BY DEF EchoRest
<1>1. UNCHANGED <<server, fdtab, listen, word, conn, user>> /\ worker[w] = "ready"
  BY DEF Echo!TakeTask, Echo!Pool!Take
<1>2. CASE tasks = <<>>
  BY <1>1, <1>2, EchoStays DEF Echo!TakeTask, Echo!Pool!Take, EchoTypes
<1>3. CASE tasks # <<>>
  <2>1. tasks' = Tail(tasks) /\ job' = [job EXCEPT ![w] = {Head(tasks)}]
    BY <1>3 DEF Echo!TakeTask, Echo!Pool!Take
  <2>2. job[w] = {} /\ job \in [Workers -> SUBSET Fds] /\ tasks \in Seq(Fds)
    BY <1>1, JobsTyped
  <2> PICK fd \in Fds : fd = Head(tasks)
    BY <1>3, <2>2
  <2>3. /\ Len(tasks) \in Nat /\ Len(tasks) >= 1 /\ tasks[1] = fd /\ Len(tasks') = Len(tasks) - 1
        /\ \A i \in 1 .. Len(tasks') : tasks'[i] = tasks[i + 1]
    BY <1>3, <2>1, <2>2
  <2>4. job'[w] = {fd} /\ \A v \in Workers : v # w => job'[v] = job[v]
    BY <2>1, <2>2
  <2>5. \A i \in 1 .. Len(tasks') : i + 1 \in 1 .. Len(tasks) /\ i + 1 # 1
    BY <2>3
  <2>6. \A f \in Fds : Queued(f)' <=> Queued(f) /\ f # fd
    <3> SUFFICES ASSUME NEW f \in Fds PROVE Queued(f)' <=> Queued(f) /\ f # fd
      OBVIOUS
    <3>1. ASSUME Queued(f)' PROVE Queued(f) /\ f # fd
      <4>1. PICK i \in 1 .. Len(tasks') : tasks'[i] = f
        BY <3>1 DEF Queued
      <4>2. i + 1 \in 1 .. Len(tasks) /\ tasks[i + 1] = f /\ i + 1 # 1 /\ 1 \in 1 .. Len(tasks)
        BY <2>3, <2>5, <4>1
      <4>3. tasks[i + 1] # tasks[1]
        BY <4>2 DEF Jobs
      <4> QED
        BY <2>3, <4>2, <4>3 DEF Queued
    <3>2. ASSUME Queued(f), f # fd PROVE Queued(f)'
      <4>1. PICK i \in 1 .. Len(tasks) : tasks[i] = f
        BY <3>2 DEF Queued
      <4>2. i - 1 \in 1 .. Len(tasks') /\ i - 1 + 1 = i
        BY <2>3, <3>2, <4>1
      <4>3. tasks'[i - 1] = f
        BY <2>3, <4>1, <4>2
      <4> QED
        BY <4>2, <4>3 DEF Queued
    <3> QED
      BY <3>1, <3>2
  <2>7. Queued(fd)
    <3>1. 1 \in 1 .. Len(tasks)
      BY <2>3
    <3> QED
      BY <2>3, <3>1 DEF Queued
  <2>8. Jobs'
    <3>1. \A i, j \in 1 .. Len(tasks') : tasks'[i] = tasks'[j] => i = j
      <4> SUFFICES ASSUME NEW i \in 1 .. Len(tasks'), NEW j \in 1 .. Len(tasks'), tasks'[i] = tasks'[j]
                   PROVE  i = j
        OBVIOUS
      <4>1. tasks[i + 1] = tasks[j + 1] /\ i + 1 \in 1 .. Len(tasks) /\ j + 1 \in 1 .. Len(tasks)
        BY <2>3, <2>5
      <4>2. i + 1 = j + 1
        BY <4>1 DEF Jobs
      <4> QED
        BY <2>3, <4>2
    <3>2. \A v \in Workers : \A f \in job[v] : f \in Fds /\ f # fd /\ v # w
      BY <2>2, <2>7 DEF Jobs
    <3>3. \A v \in Workers : \A f \in job'[v] : ~Queued(f)'
      BY <2>4, <2>6, <3>2 DEF Jobs
    <3>4. \A u, v \in Workers : \A f \in job'[u] : f \in job'[v] => u = v
      BY <2>4, <3>2 DEF Jobs
    <3>5. \A v \in Workers : \A f, g \in job'[v] : f = g
      BY <2>4 DEF Jobs
    <3>6. \A f \in Fds : fdtab'[f] # {} <=> Queued(f)' \/ \E v \in Workers : f \in job'[v]
      <4> SUFFICES ASSUME NEW f \in Fds
                   PROVE  fdtab'[f] # {} <=> Queued(f)' \/ \E v \in Workers : f \in job'[v]
        OBVIOUS
      <4>1. fdtab'[f] # {} <=> Queued(f) \/ \E v \in Workers : f \in job[v]
        BY <1>1 DEF Jobs
      <4>2. CASE f = fd
        BY <2>4, <2>7, <4>1, <4>2
      <4>3. CASE f # fd
        BY <2>2, <2>4, <2>6, <4>1, <4>3
      <4> QED
        BY <4>2, <4>3
    <3> QED
      BY <3>1, <3>3, <3>4, <3>5, <3>6 DEF Jobs
  <2>9. OwnWord'
    <3>1. word[w] = <<>>
      BY <2>2 DEF OwnWord
    <3>2. \A v \in Workers, k \in Conns : v # w /\ Serves(v, k)' => Serves(v, k)
      BY <1>1, <2>4 DEF Serves
    <3>3. \A v \in Workers : job'[v] = {} => word'[v] = <<>>
      BY <1>1, <2>4 DEF OwnWord
    <3>4. \A c \in Clients : user[c].conn \subseteq Conns
      BY DEF EchoTypes, EchoUsers
    <3> QED
      BY <1>1, <3>1, <3>2, <3>3, <3>4 DEF OwnWord
  <2>10. EchoTypes' /\ Places' /\ OneConn' /\ Attempts'
    BY <1>1 DEF EchoTypes, Places, InBacklog, OneConn, Attempts
  <2>11. Ends'
    BY <1>1 DEF Ends, ServerHas, ClientHas, InBacklog
  <2> QED
    BY <2>8, <2>9, <2>10, <2>11 DEF EchoRest
<1> QED
  BY <1>2, <1>3

\* accept moves a connection from the backlog behind a descriptor that was free, and
\* queues that.
LEMMA EchoAccepts ==
  ASSUME EchoPool, EchoRest, Echo!Accept
  PROVE  EchoRest'
<1> EchoTypes /\ Places /\ OneConn /\ Jobs /\ Ends /\ OwnWord /\ Attempts
  BY DEF EchoRest
<1> PICK fd \in Fds : fd = CHOOSE x \in Echo!FreeFds : \A y \in Echo!FreeFds : x <= y
  BY LowestFd DEF Echo!Accept
<1>0. listen \in Seq(Conns) /\ listen # <<>> /\ fdtab \in [Fds -> SUBSET Conns]
  BY DEF EchoTypes, Echo!Accept
<1> PICK k \in Conns : k = Head(listen)
  BY <1>0
<1>1. fdtab[fd] = {}
  BY LowestFd DEF Echo!Accept
<1>2. /\ fdtab' = [fdtab EXCEPT ![fd] = {k}] /\ tasks' = Append(tasks, fd) /\ job' = job
      /\ listen' = Tail(listen) /\ UNCHANGED <<server, word, conn, user>>
  BY DEF Echo!Accept, Echo!Push, Echo!Pool!Push
<1>3. tasks \in Seq(Fds) /\ job \in [Workers -> SUBSET Fds]
  BY JobsTyped
<1>4. fdtab'[fd] = {k} /\ \A f \in Fds : f # fd => fdtab'[f] = fdtab[f]
  BY <1>0, <1>2
<1>5. /\ Len(listen) \in Nat /\ Len(listen) >= 1 /\ listen[1] = k /\ Len(listen') = Len(listen) - 1
      /\ \A i \in 1 .. Len(listen') : listen'[i] = listen[i + 1]
  BY <1>0, <1>2
<1>6. \A i \in 1 .. Len(listen') : i + 1 \in 1 .. Len(listen) /\ i + 1 # 1
  BY <1>5
<1>7. InBacklog(k) /\ \A l \in Conns : InBacklog(l)' <=> InBacklog(l) /\ l # k
  <2>1. 1 \in 1 .. Len(listen)
    BY <1>5
  <2>2. ASSUME NEW l \in Conns, InBacklog(l)' PROVE InBacklog(l) /\ l # k
    <3>1. PICK i \in 1 .. Len(listen') : listen'[i] = l
      BY <2>2 DEF InBacklog
    <3>2. i + 1 \in 1 .. Len(listen) /\ listen[i + 1] = l /\ i + 1 # 1
      BY <1>5, <1>6, <3>1
    <3>3. listen[i + 1] # listen[1]
      BY <2>1, <3>2 DEF Places
    <3> QED
      BY <1>5, <3>2, <3>3 DEF InBacklog
  <2>3. ASSUME NEW l \in Conns, InBacklog(l), l # k PROVE InBacklog(l)'
    <3>1. PICK i \in 1 .. Len(listen) : listen[i] = l
      BY <2>3 DEF InBacklog
    <3>2. i - 1 \in 1 .. Len(listen') /\ i - 1 + 1 = i
      BY <1>5, <2>3, <3>1
    <3>3. listen'[i - 1] = l
      BY <1>5, <3>1, <3>2
    <3> QED
      BY <3>2, <3>3 DEF InBacklog
  <2> QED
    BY <1>5, <2>1, <2>2, <2>3 DEF InBacklog
<1>8. Places'
  <2>1. \A i, j \in 1 .. Len(listen') : listen'[i] = listen'[j] => i = j
    <3> SUFFICES ASSUME NEW i \in 1 .. Len(listen'), NEW j \in 1 .. Len(listen'), listen'[i] = listen'[j]
                 PROVE  i = j
      OBVIOUS
    <3>1. listen[i + 1] = listen[j + 1] /\ i + 1 \in 1 .. Len(listen) /\ j + 1 \in 1 .. Len(listen)
      BY <1>5, <1>6
    <3>2. i + 1 = j + 1
      BY <3>1 DEF Places
    <3> QED
      BY <1>5, <3>2
  <2>2. \A l \in Conns, f \in Fds : l \in fdtab'[f] => ~InBacklog(l)'
    BY <1>4, <1>7 DEF Places
  <2>3. \A f, g \in Fds : \A l \in fdtab'[f] : l \in fdtab'[g] => f = g
    <3>1. \A f \in Fds : k \notin fdtab[f]
      BY <1>7 DEF Places
    <3> SUFFICES ASSUME NEW f \in Fds, NEW g \in Fds, NEW l, l \in fdtab'[f], l \in fdtab'[g] PROVE f = g
      OBVIOUS
    <3>2. CASE f = fd \/ g = fd
      BY <1>4, <3>1, <3>2
    <3>3. CASE f # fd /\ g # fd
      BY <1>4, <3>3 DEF Places
    <3> QED
      BY <3>2, <3>3
  <2>4. \A f \in Fds : \A l, m \in fdtab'[f] : l = m
    BY <1>4 DEF Places
  <2> QED
    BY <1>2, <2>1, <2>2, <2>3, <2>4 DEF Places
<1>9. ~Queued(fd) /\ \A w \in Workers : fd \notin job[w]
  BY <1>1 DEF Jobs
<1>10. /\ Len(tasks) \in Nat /\ Len(tasks') = Len(tasks) + 1 /\ tasks'[Len(tasks) + 1] = fd
       /\ \A i \in 1 .. Len(tasks) : tasks'[i] = tasks[i]
  BY <1>2, <1>3
<1>11. \A i \in 1 .. Len(tasks') : i \in 1 .. Len(tasks) \/ i = Len(tasks) + 1
  BY <1>10
<1>12. \A f \in Fds : Queued(f)' <=> Queued(f) \/ f = fd
  <2>1. Len(tasks) + 1 \in 1 .. Len(tasks') /\ 1 .. Len(tasks) \subseteq 1 .. Len(tasks')
    BY <1>10
  <2> QED
    BY <1>10, <1>11, <2>1 DEF Queued
<1>13. Jobs'
  <2>1. \A i, j \in 1 .. Len(tasks') : tasks'[i] = tasks'[j] => i = j
    <3>1. \A i \in 1 .. Len(tasks) : tasks[i] # fd
      BY <1>9 DEF Queued
    <3> QED
      BY <1>10, <1>11, <3>1 DEF Jobs
  <2>2. \A w \in Workers : \A f \in job'[w] : f \in Fds /\ f # fd /\ ~Queued(f)'
    BY <1>2, <1>3, <1>9, <1>12 DEF Jobs
  <2>3. \A f \in Fds : fdtab'[f] # {} <=> Queued(f)' \/ \E w \in Workers : f \in job'[w]
    BY <1>2, <1>4, <1>12 DEF Jobs
  <2> QED
    BY <1>2, <2>1, <2>2, <2>3 DEF Jobs
<1>14. Ends'
  <2>1. \A l \in Conns : ServerHas(l)' <=> ServerHas(l)
    BY <1>1, <1>4, <1>7 DEF ServerHas
  <2>2. \A l \in Conns : ClientHas(l)' <=> ClientHas(l)
    BY <1>2 DEF ClientHas
  <2> QED
    BY <1>2, <2>1, <2>2 DEF Ends
<1>15. OwnWord'
  <2>1. \A w \in Workers, l \in Conns : Serves(w, l)' <=> Serves(w, l)
    BY <1>2, <1>3, <1>4, <1>9 DEF Serves
  <2>2. \A c \in Clients : user[c].conn \subseteq Conns
    BY DEF EchoTypes, EchoUsers
  <2> QED
    BY <1>2, <2>1, <2>2 DEF OwnWord
<1>16. EchoTypes' /\ OneConn' /\ Attempts'
  <2>1. listen' \in Seq(Conns) /\ fdtab' \in [Fds -> SUBSET Conns]
    BY <1>0, <1>2
  <2> QED
    BY <1>2, <2>1 DEF EchoTypes, OneConn, Attempts
<1> QED
  BY <1>8, <1>13, <1>14, <1>15, <1>16 DEF EchoRest

\* The connection a busy worker serves.
LEMMA ServedConn ==
  ASSUME EchoPool, EchoRest, NEW w \in Workers, job[w] # {}
  PROVE  \E fd \in Fds, k \in Conns :
           /\ job[w] = {fd} /\ fdtab[fd] = {k} /\ ServerHas(k)
           /\ Echo!Served(w) # {} /\ \A s \in Echo!Served(w) : s[1] = fd /\ s[2] = k
<1> EchoTypes /\ Places /\ Jobs
  BY DEF EchoRest
<1>1. job \in [Workers -> SUBSET Fds] /\ fdtab \in [Fds -> SUBSET Conns]
  BY JobsTyped DEF EchoTypes
<1> PICK fd \in job[w] : TRUE
  OBVIOUS
<1>2. fd \in Fds /\ job[w] = {fd}
  BY <1>1 DEF Jobs
<1>3. fdtab[fd] # {}
  BY <1>2 DEF Jobs
<1> PICK k \in fdtab[fd] : TRUE
  BY <1>3
<1>4. k \in Conns /\ fdtab[fd] = {k}
  BY <1>1, <1>2 DEF Places
<1>5. Echo!Served(w) = {<<fd, k>>}
  BY <1>2, <1>4 DEF Echo!Served
<1>6. <<fd, k>>[1] = fd /\ <<fd, k>>[2] = k
  OBVIOUS
<1> QED
  BY <1>2, <1>4, <1>5, <1>6 DEF ServerHas

\* A worker reads the one word its client has written.
LEMMA EchoReads ==
  ASSUME EchoPool, EchoRest, NEW w \in Workers, Echo!TaskRead(w)
  PROVE  EchoRest'
<1> EchoTypes /\ Places /\ OneConn /\ Jobs /\ Ends /\ OwnWord /\ Attempts
  BY DEF EchoRest
<1>1. job[w] # {}
  BY DEF Echo!TaskRead, Echo!Served
<1> PICK fd \in Fds, k \in Conns :
      /\ job[w] = {fd} /\ fdtab[fd] = {k} /\ ServerHas(k)
      /\ Echo!Served(w) # {} /\ \A s \in Echo!Served(w) : s[1] = fd /\ s[2] = k
  BY <1>1, ServedConn
<1>2. /\ conn[k].up # <<>> /\ word' = [word EXCEPT ![w] = <<Head(conn[k].up)>>]
      /\ conn' = [conn EXCEPT ![k].up = Tail(@)]
      /\ UNCHANGED <<server, fdtab, listen, tasks, worker, job, user>>
  <2> PICK s \in Echo!Served(w) : /\ conn[s[2]].up # <<>> /\ word' = [word EXCEPT ![w] = <<Head(conn[s[2]].up)>>]
                                  /\ conn' = [conn EXCEPT ![s[2]].up = Tail(@)]
    BY DEF Echo!TaskRead
  <2>1. s[2] = k
    OBVIOUS
  <2> QED
    BY <2>1 DEF Echo!TaskRead, Echo!poolVars
<1>3. conn[k] \in EchoLinks /\ conn \in [Conns -> EchoLinks] /\ word \in [Workers -> OneWord]
  BY DEF EchoTypes
<1>4. PICK x \in STRING : conn[k].up = <<x>>
  BY <1>2, <1>3 DEF EchoLinks, OneWord
<1>5. Head(conn[k].up) = x /\ Tail(conn[k].up) = <<>>
  BY <1>4
<1>6. word'[w] = <<x>> /\ \A v \in Workers : v # w => word'[v] = word[v]
  BY <1>2, <1>3, <1>5
<1>7. /\ conn'[k].up = <<>> /\ conn'[k].down = conn[k].down
      /\ conn'[k].fin = conn[k].fin /\ conn'[k].hup = conn[k].hup
      /\ \A l \in Conns : l # k => conn'[l] = conn[l]
  BY <1>2, <1>3, <1>5 DEF EchoLinks
<1>8. EchoTypes'
  <2>1. <<x>> \in OneWord /\ <<>> \in OneWord
    BY DEF OneWord
  <2>2. word' \in [Workers -> OneWord] /\ conn' \in [Conns -> EchoLinks]
    BY <1>2, <1>3, <1>5, <2>1 DEF EchoLinks
  <2> QED
    BY <1>2, <2>2 DEF EchoTypes
<1>9. Ends'
  <2>1. \A l \in Conns : (ServerHas(l)' <=> ServerHas(l)) /\ (ClientHas(l)' <=> ClientHas(l))
    BY <1>2 DEF ServerHas, ClientHas, InBacklog
  <2> QED
    BY <1>7, <2>1 DEF Ends
<1>10. OwnWord'
  <2>1. \A v \in Workers, l \in Conns : Serves(v, l)' <=> Serves(v, l)
    BY <1>2 DEF Serves
  <2>2. \A l \in Conns : Serves(w, l) <=> l = k
    BY DEF Serves
  <2>3. \A v \in Workers : Serves(v, k) => v = w
    <3>1. \A v \in Workers : job[v] \subseteq Fds
      BY JobsTyped
    <3>2. \A f \in Fds : k \in fdtab[f] => f = fd
      BY DEF Places
    <3>3. \A v \in Workers : fd \in job[v] => v = w
      BY DEF Jobs
    <3> QED
      BY <3>1, <3>2, <3>3 DEF Serves
  <2>4. ASSUME NEW c \in Clients, NEW l \in user[c].conn
        PROVE  /\ user[c].pc = "typing" =>
                    /\ conn'[l].up = <<>> /\ conn'[l].down = <<>>
                    /\ \A v \in Workers : Serves(v, l) => word'[v] = <<>>
               /\ user[c].pc = "reading" =>
                    /\ conn'[l].up \in {<<>>, <<user[c].word>>} /\ conn'[l].down \in {<<>>, <<Echo!Find(user[c].word)>>}
                    /\ \A v \in Workers : Serves(v, l) => word'[v] \in {<<>>, <<user[c].word>>}
    <3>1. l \in Conns
      BY DEF EchoTypes, EchoUsers
    <3>2. CASE l = k
      <4>1. user[c].pc # "typing"
        BY <1>2, <3>2 DEF OwnWord
      <4>2. user[c].pc = "reading" => <<x>> = <<user[c].word>> /\ conn[k].down \in {<<>>, <<Echo!Find(user[c].word)>>}
        <5>1. user[c].pc = "reading" =>
                conn[l].up \in {<<>>, <<user[c].word>>} /\ conn[l].down \in {<<>>, <<Echo!Find(user[c].word)>>}
          BY DEF OwnWord
        <5> QED
          BY <1>2, <1>4, <3>2, <5>1
      <4> QED
        BY <1>6, <1>7, <2>3, <3>2, <4>1, <4>2
    <3>3. CASE l # k
      <4>1. conn'[l] = conn[l] /\ \A v \in Workers : Serves(v, l) => word'[v] = word[v]
        BY <1>6, <1>7, <2>2, <3>1, <3>3
      <4> QED
        BY <4>1 DEF OwnWord
    <3> QED
      BY <3>2, <3>3
  <2>5. \A v \in Workers : job[v] = {} => word'[v] = <<>>
    BY <1>1, <1>6 DEF OwnWord
  <2>6. \A c \in Clients : user[c].conn \subseteq Conns
    BY DEF EchoTypes, EchoUsers
  <2>7. \A c \in Clients : \A l \in user[c].conn : l \in Conns
    BY <2>6
  <2>8. \A c \in Clients : \A l \in user[c].conn :
          /\ user[c].pc = "typing" => \A v \in Workers : Serves(v, l)' => word'[v] = <<>>
          /\ user[c].pc = "reading" => \A v \in Workers : Serves(v, l)' => word'[v] \in {<<>>, <<user[c].word>>}
    BY <2>1, <2>4, <2>7
  <2> QED
    BY <1>2, <2>4, <2>5, <2>8 DEF OwnWord
<1>11. Places' /\ OneConn' /\ Jobs' /\ Attempts'
  BY <1>2 DEF Places, InBacklog, OneConn, Jobs, Queued, Attempts
<1> QED
  BY <1>8, <1>9, <1>10, <1>11 DEF EchoRest

\* A worker is done with its connection: it closes it and is idle again.  What it wrote
\* before is the answer to the word it had read.
LEMMA ServerCloses ==
  ASSUME EchoPool, EchoRest, NEW w \in Workers, NEW fd \in Fds, NEW k \in Conns,
         job[w] = {fd}, fdtab[fd] = {k}, ServerHas(k),
         fdtab' = [fdtab EXCEPT ![fd] = {}], job' = [job EXCEPT ![w] = {}],
         UNCHANGED <<server, listen, tasks, user>>,
         word' = [word EXCEPT ![w] = <<>>],
         NEW text \in OneAnswer, conn' = [conn EXCEPT ![k] = Echo!CloseSide([@ EXCEPT !.down = text], "server")],
         word[w] = <<>> => text = <<>>,
         \A x \in STRING : word[w] = <<x>> => text = <<Echo!Find(x)>>
  PROVE  EchoRest'
<1> EchoTypes /\ Places /\ OneConn /\ Jobs /\ Ends /\ OwnWord /\ Attempts
  BY DEF EchoRest
<1>1. /\ conn[k] \in EchoLinks /\ conn \in [Conns -> EchoLinks] /\ word \in [Workers -> OneWord]
      /\ fdtab \in [Fds -> SUBSET Conns] /\ job \in [Workers -> SUBSET Fds]
  BY JobsTyped DEF EchoTypes
<1>2. fdtab'[fd] = {} /\ \A f \in Fds : f # fd => fdtab'[f] = fdtab[f]
  BY <1>1
<1>3. job'[w] = {} /\ \A v \in Workers : v # w => job'[v] = job[v]
  BY <1>1
<1>4. word'[w] = <<>> /\ \A v \in Workers : v # w => word'[v] = word[v]
  BY <1>1
<1>5. /\ \A l \in Conns : l # k => conn'[l] = conn[l]
      /\ conn'[k] = Echo!CloseSide([conn[k] EXCEPT !.down = text], "server")
  BY <1>1
<1>6. /\ conn[k].fin => conn'[k] = Echo!Fresh
      /\ ~conn[k].fin => /\ conn'[k].up = conn[k].up /\ conn'[k].down = text
                         /\ conn'[k].hup = TRUE /\ conn'[k].fin = FALSE
      /\ conn'[k] \in EchoLinks
  <2>1. Echo!Fresh \in EchoLinks
    BY DEF Echo!Fresh, EchoLinks, OneWord, OneAnswer
  <2>2. conn[k].fin \in BOOLEAN
    BY <1>1 DEF EchoLinks
  <2>3. CASE conn[k].fin
    BY <1>1, <1>5, <2>1, <2>3 DEF Echo!CloseSide, EchoLinks
  <2>4. CASE ~conn[k].fin
    BY <1>1, <1>5, <2>2, <2>4 DEF Echo!CloseSide, EchoLinks
  <2> QED
    BY <2>3, <2>4
<1>7. EchoTypes'
  <2>1. <<>> \in OneWord
    BY DEF OneWord
  <2>2. word' \in [Workers -> OneWord] /\ fdtab' \in [Fds -> SUBSET Conns]
    BY <1>1, <2>1
  <2>3. conn' = [l \in Conns |-> conn'[l]]
    BY <1>1
  <2>4. conn' \in [Conns -> EchoLinks]
    BY <1>1, <1>5, <1>6, <2>3
  <2> QED
    BY <2>2, <2>4 DEF EchoTypes
<1>8. \A f \in Fds : k \in fdtab[f] => f = fd
  BY DEF Places
<1>9. Places' /\ OneConn' /\ Attempts'
  <2>1. \A l \in Conns : InBacklog(l)' <=> InBacklog(l)
    BY DEF InBacklog
  <2>2. \A f \in Fds : fdtab'[f] \subseteq fdtab[f]
    BY <1>2
  <2>3. Places'
    BY <2>1, <2>2 DEF Places
  <2> QED
    BY <2>3 DEF OneConn, Attempts
<1>10. Jobs'
  <2>1. \A f \in Fds : Queued(f)' <=> Queued(f)
    BY DEF Queued
  <2>2. \A v \in Workers : job'[v] \subseteq job[v] /\ job[v] \subseteq Fds
    BY <1>1, <1>3
  <2>3. ~Queued(fd) /\ \A v \in Workers : fd \notin job'[v]
    BY <1>3 DEF Jobs
  <2>4. \A f \in Fds : f # fd => \A v \in Workers : f \in job'[v] <=> f \in job[v]
    BY <1>3
  <2>5. \A f \in Fds : fdtab'[f] # {} <=> Queued(f)' \/ \E v \in Workers : f \in job'[v]
    BY <1>2, <2>1, <2>3, <2>4 DEF Jobs
  <2>6. \A v \in Workers : \A f \in job'[v] : ~Queued(f)'
    BY <2>1, <2>2 DEF Jobs
  <2> QED
    BY <2>2, <2>5, <2>6 DEF Jobs
<1>11. Ends'
  <2>1. \A l \in Conns : ClientHas(l)' <=> ClientHas(l)
    BY DEF ClientHas
  <2>2. \A l \in Conns : l # k => (ServerHas(l)' <=> ServerHas(l))
    <3>1. \A l \in Conns, f \in Fds : l # k => (l \in fdtab'[f] <=> l \in fdtab[f])
      BY <1>2
    <3> QED
      BY <3>1 DEF ServerHas, InBacklog
  <2>3. ~ServerHas(k)'
    <3>1. ~InBacklog(k)'
      BY DEF Places, InBacklog
    <3>2. \A f \in Fds : k \notin fdtab'[f]
      BY <1>2, <1>8
    <3> QED
      BY <3>1, <3>2 DEF ServerHas
  <2>4. conn[k].fin <=> ~ClientHas(k)
    BY DEF Ends
  <2> QED
    BY <1>5, <1>6, <2>1, <2>2, <2>3, <2>4 DEF Ends
<1>12. OwnWord'
  <2>1. \A v \in Workers, l \in Conns : Serves(v, l)' => Serves(v, l) /\ v # w
    BY <1>1, <1>2, <1>3 DEF Serves
  <2>2. \A c \in Clients : user[c].conn \subseteq Conns
    BY DEF EchoTypes, EchoUsers
  <2>3. Serves(w, k)
    BY DEF Serves
  <2>4. \A v \in Workers : job'[v] = {} => word'[v] = <<>>
    BY <1>3, <1>4 DEF OwnWord
  <2>5. ASSUME NEW c \in Clients, NEW l \in user[c].conn
        PROVE  /\ user[c].pc = "typing" =>
                    /\ conn'[l].up = <<>> /\ conn'[l].down = <<>>
                    /\ \A v \in Workers : Serves(v, l)' => word'[v] = <<>>
               /\ user[c].pc = "reading" =>
                    /\ conn'[l].up \in {<<>>, <<user[c].word>>} /\ conn'[l].down \in {<<>>, <<Echo!Find(user[c].word)>>}
                    /\ \A v \in Workers : Serves(v, l)' => word'[v] \in {<<>>, <<user[c].word>>}
    <3>1. l \in Conns
      BY <2>2
    <3>2. \A v \in Workers : Serves(v, l)' => Serves(v, l) /\ word'[v] = word[v]
      BY <1>4, <2>1, <3>1
    <3>3. CASE l = k
      <4>1. ~conn[k].fin
        BY <3>3 DEF Ends, ClientHas
      <4>2. conn'[l].up = conn[l].up /\ conn'[l].down = text
        BY <1>6, <3>3, <4>1
      <4>3. user[c].pc = "typing" => word[w] = <<>>
        BY <2>3, <3>3 DEF OwnWord
      <4>4. user[c].pc = "reading" => text \in {<<>>, <<Echo!Find(user[c].word)>>}
        <5>1. user[c].pc = "reading" => word[w] \in {<<>>, <<user[c].word>>}
          BY <2>3, <3>3 DEF OwnWord
        <5>2. CASE word[w] = <<>>
          BY <5>2
        <5>3. CASE word[w] # <<>>
          <6>1. PICK x \in STRING : word[w] = <<x>>
            BY <1>1, <5>3 DEF OneWord
          <6> QED
            BY <5>1, <6>1
        <5> QED
          BY <5>2, <5>3
      <4> QED
        BY <3>2, <4>2, <4>3, <4>4 DEF OwnWord
    <3>4. CASE l # k
      <4>1. conn'[l] = conn[l]
        BY <1>5, <3>1, <3>4
      <4> QED
        BY <3>2, <4>1 DEF OwnWord
    <3> QED
      BY <3>3, <3>4
  <2> QED
    BY <2>4, <2>5 DEF OwnWord
<1> QED
  BY <1>7, <1>9, <1>10, <1>11, <1>12 DEF EchoRest

\* read returned 0: the client has gone.
LEMMA EchoEnds ==
  ASSUME EchoPool, EchoRest, NEW w \in Workers, Echo!TaskEof(w)
  PROVE  EchoRest'
<1>1. job[w] # {}
  BY DEF Echo!TaskEof, Echo!Served
<1> PICK fd \in Fds, k \in Conns :
      /\ job[w] = {fd} /\ fdtab[fd] = {k} /\ ServerHas(k)
      /\ Echo!Served(w) # {} /\ \A s \in Echo!Served(w) : s[1] = fd /\ s[2] = k
  BY <1>1, ServedConn
<1>2. /\ word[w] = <<>> /\ conn' = [conn EXCEPT ![k] = Echo!CloseSide(@, "server")]
      /\ fdtab' = [fdtab EXCEPT ![fd] = {}] /\ job' = [job EXCEPT ![w] = {}]
      /\ UNCHANGED <<server, listen, tasks, word, user>>
  <2> PICK s \in Echo!Served(w) : /\ conn' = [conn EXCEPT ![s[2]] = Echo!CloseSide(@, "server")]
                                  /\ fdtab' = [fdtab EXCEPT ![s[1]] = {}]
    BY DEF Echo!TaskEof
  <2>1. s[1] = fd /\ s[2] = k
    OBVIOUS
  <2> QED
    BY <2>1 DEF Echo!TaskEof, Echo!Pool!Finish
<1>3. word \in [Workers -> OneWord] /\ conn \in [Conns -> EchoLinks] /\ conn[k].down = <<>>
  BY DEF EchoRest, EchoTypes, Ends
<1>4. conn[k] = [conn[k] EXCEPT !.down = <<>>]
  BY <1>3 DEF EchoLinks
<1> PICK text \in OneAnswer : text = <<>>
  BY DEF OneAnswer
<1>5. conn' = [conn EXCEPT ![k] = Echo!CloseSide([@ EXCEPT !.down = text], "server")]
  BY <1>2, <1>4
<1>6. word' = [word EXCEPT ![w] = <<>>]
  BY <1>2, <1>3
<1>7. /\ word[w] = <<>> => text = <<>>
      /\ \A x \in STRING : word[w] = <<x>> => text = <<Echo!Find(x)>>
  BY <1>2
<1>8. fdtab' = [fdtab EXCEPT ![fd] = {}] /\ job' = [job EXCEPT ![w] = {}] /\ UNCHANGED <<server, listen, tasks, user>>
  BY <1>2
<1> QED
  BY <1>5, <1>6, <1>7, <1>8, ServerCloses

\* A worker answers the word it has read.
LEMMA EchoWrites ==
  ASSUME EchoPool, EchoRest, NEW w \in Workers, Echo!TaskWrite(w)
  PROVE  EchoRest'
<1> EchoTypes /\ Ends /\ OwnWord
  BY DEF EchoRest
<1>1. word[w] # <<>> /\ job[w] # {}
  BY DEF Echo!TaskWrite, OwnWord
<1> PICK fd \in Fds, k \in Conns :
      /\ job[w] = {fd} /\ fdtab[fd] = {k} /\ ServerHas(k)
      /\ Echo!Served(w) # {} /\ \A s \in Echo!Served(w) : s[1] = fd /\ s[2] = k
  BY <1>1, ServedConn
<1>2. word \in [Workers -> OneWord] /\ conn \in [Conns -> EchoLinks] /\ fdtab \in [Fds -> SUBSET Conns] /\ conn[k].down = <<>>
  BY DEF EchoTypes, Ends
<1> PICK x \in STRING : word[w] = <<x>>
  BY <1>1, <1>2 DEF OneWord
<1> DEFINE text == <<Echo!Find(x)>>
<1>3. text \in OneAnswer /\ \A y \in STRING : word[w] = <<y>> => text = <<Echo!Find(y)>>
  BY DEF OneAnswer
<1>4. Append(conn[k].down, Echo!Find(word[w][1])) = text
  BY <1>2
<1>5. \A l \in Conns : (\A s \in Echo!Served(w) : s[2] # l) <=> l # k
  OBVIOUS
<1>6. conn' = [conn EXCEPT ![k] = Echo!CloseSide([@ EXCEPT !.down = text], "server")]
  <2>1. conn' = [l \in Conns |->
                   IF \A s \in Echo!Served(w) : s[2] # l THEN conn[l]
                   ELSE Echo!CloseSide([conn[l] EXCEPT !.down = Append(@, Echo!Find(word[w][1]))], "server")]
    BY DEF Echo!TaskWrite
  <2>2. [conn[k] EXCEPT !.down = Append(@, Echo!Find(word[w][1]))] = [conn[k] EXCEPT !.down = text]
    BY <1>2, <1>4 DEF EchoLinks
  <2> HIDE DEF text
  <2>3. \A l \in Conns : conn'[l] = IF l # k THEN conn[l] ELSE Echo!CloseSide([conn[k] EXCEPT !.down = text], "server")
    BY <1>5, <2>1, <2>2
  <2>4. conn' = [l \in Conns |-> IF l # k THEN conn[l] ELSE Echo!CloseSide([conn[k] EXCEPT !.down = text], "server")]
    BY <2>1, <2>3
  <2> QED
    BY <1>2, <2>4
<1>7. fdtab' = [fdtab EXCEPT ![fd] = {}] /\ word' = [word EXCEPT ![w] = <<>>] /\ job' = [job EXCEPT ![w] = {}]
      /\ UNCHANGED <<server, listen, tasks, user>>
  <2>1. fdtab' = [f \in Fds |-> IF f \in job[w] THEN {} ELSE fdtab[f]]
    BY DEF Echo!TaskWrite
  <2>2. fdtab' = [fdtab EXCEPT ![fd] = {}]
    BY <1>2, <2>1
  <2> QED
    BY <2>2 DEF Echo!TaskWrite, Echo!Pool!Finish
<1>8. word[w] # <<>>
  BY <1>1
<1> HIDE DEF text
<1> QED
  BY <1>3, <1>6, <1>7, <1>8, ServerCloses

\* The kernel closes what a dying server had open.
LEMMA EchoCrashes ==
  ASSUME EchoPool, EchoRest, Echo!Crash
  PROVE  EchoRest'
<1> EchoTypes /\ OneConn /\ Ends /\ OwnWord /\ Attempts /\ Places
  BY DEF EchoRest
<1>1. /\ server' = [pc |-> "down", crashes |-> server.crashes + 1] /\ server.crashes < MaxCrashes
      /\ fdtab' = [fd \in Fds |-> {}] /\ listen' = <<>> /\ tasks' = <<>>
      /\ job' = [w \in Workers |-> {}] /\ word' = [w \in Workers |-> <<>>] /\ user' = user
  BY DEF Echo!Crash
<1>2. conn \in [Conns -> EchoLinks] /\ server \in [pc : {"down", "bound", "up"}, crashes : 0 .. MaxCrashes]
  BY DEF EchoTypes
<1>3. conn' = [k \in Conns |-> IF ServerHas(k) THEN Echo!CloseSide(conn[k], "server") ELSE conn[k]]
  BY DEF Echo!Crash, Echo!Contains, ServerHas, InBacklog
<1>4. \A k \in Conns : /\ conn'[k] \in EchoLinks
                       /\ ClientHas(k) => conn'[k].up = conn[k].up /\ conn'[k].down = conn[k].down
                                          /\ conn'[k].hup /\ ~conn'[k].fin
                       /\ ~ClientHas(k) => conn'[k] = Echo!Fresh
  <2> SUFFICES ASSUME NEW k \in Conns
               PROVE  /\ conn'[k] \in EchoLinks
                      /\ ClientHas(k) => conn'[k].up = conn[k].up /\ conn'[k].down = conn[k].down
                                         /\ conn'[k].hup /\ ~conn'[k].fin
                      /\ ~ClientHas(k) => conn'[k] = Echo!Fresh
    OBVIOUS
  <2>1. conn[k] \in EchoLinks /\ conn[k].fin \in BOOLEAN
    BY <1>2 DEF EchoLinks
  <2>2. CASE ~ServerHas(k)
    BY <1>3, <2>1, <2>2 DEF Ends
  <2>3. CASE ServerHas(k) /\ conn[k].fin
    <3>1. Echo!Fresh \in EchoLinks
      BY DEF Echo!Fresh, EchoLinks, OneWord, OneAnswer
    <3> QED
      BY <1>3, <2>3, <3>1 DEF Ends, Echo!CloseSide
  <2>4. CASE ServerHas(k) /\ ~conn[k].fin
    <3>1. conn'[k] = [conn[k] EXCEPT !.hup = TRUE] /\ ClientHas(k)
      BY <1>3, <2>4 DEF Ends, Echo!CloseSide
    <3> QED
      BY <2>1, <2>4, <3>1 DEF EchoLinks
  <2> QED
    BY <2>1, <2>2, <2>3, <2>4
<1>5. EchoTypes'
  <2>1. <<>> \in Seq(Conns) /\ <<>> \in OneWord
    BY DEF OneWord
  <2>2. server' \in [pc : {"down", "bound", "up"}, crashes : 0 .. MaxCrashes]
    BY <1>1, <1>2, EchoAssumption
  <2>3. conn' \in [Conns -> EchoLinks]
    BY <1>3, <1>4
  <2> QED
    BY <1>1, <2>1, <2>2, <2>3 DEF EchoTypes
<1>6. 1 .. Len(<<>>) = {}
  OBVIOUS
<1>7. Places' /\ OneConn' /\ Jobs' /\ Attempts'
  BY <1>1, <1>6 DEF Places, InBacklog, OneConn, Jobs, Queued, Attempts
<1>8. Ends'
  <2>1. \A k \in Conns : ~ServerHas(k)' /\ (ClientHas(k)' <=> ClientHas(k))
    BY <1>1, <1>6 DEF ServerHas, ClientHas, InBacklog
  <2> QED
    BY <1>4, <2>1 DEF Ends
<1>9. OwnWord'
  <2>1. \A w \in Workers, k \in Conns : ~Serves(w, k)'
    BY <1>1 DEF Serves
  <2>2. \A c \in Clients : \A k \in user[c].conn :
          k \in Conns /\ conn'[k].up = conn[k].up /\ conn'[k].down = conn[k].down
    <3>1. \A c \in Clients : user[c].conn \subseteq Conns
      BY DEF EchoTypes, EchoUsers
    <3> QED
      BY <1>4, <3>1 DEF ClientHas
  <2> QED
    BY <1>1, <2>1, <2>2 DEF OwnWord
<1> QED
  BY <1>5, <1>7, <1>8, <1>9 DEF EchoRest

-----------------------------------------------------------------------------
\* connect: a connection that was free.
LEMMA EchoConnects ==
  ASSUME EchoPool, EchoRest, NEW c \in Clients, Echo!ConnectOk(c)
  PROVE  EchoRest'
<1> EchoTypes /\ Places /\ OneConn /\ Jobs /\ Ends /\ OwnWord /\ Attempts
  BY DEF EchoRest
<1> PICK k \in Conns : k = CHOOSE x \in Echo!FreeConns : \A y \in Echo!FreeConns : x <= y
  BY LowestConn DEF Echo!ConnectOk
<1>1. ~ServerHas(k) /\ ~ClientHas(k)
  BY LowestConn DEF Echo!ConnectOk
<1>2. /\ listen' = Append(listen, k)
      /\ user' = [user EXCEPT ![c].pc = "typing", ![c].conn = {k}, ![c].refused = 0,
                              ![c].word = Empty, ![c].answer = <<>>]
      /\ UNCHANGED <<server, fdtab, tasks, worker, job, word, conn>> /\ user[c].pc = "connect"
  BY DEF Echo!ConnectOk, Echo!poolVars
<1>3. user[c] \in EchoUsers /\ user \in [Clients -> EchoUsers] /\ listen \in Seq(Conns)
      /\ \A d \in Clients : user[d].conn \subseteq Conns
  BY DEF EchoTypes, EchoUsers
<1>4. /\ user'[c].pc = "typing" /\ user'[c].conn = {k} /\ user'[c].word = Empty /\ user'[c].answer = <<>>
      /\ user'[c].cnt = user[c].cnt /\ \A d \in Clients : d # c => user'[d] = user[d]
      /\ user' \in [Clients -> EchoUsers]
  <2>1. <<>> \in OneAnswer /\ Empty \in STRING \cup {Empty} /\ {k} \in SUBSET Conns
    BY DEF OneAnswer
  <2> QED
    BY <1>2, <1>3, <2>1 DEF EchoUsers
<1>5. user[c].conn = {}
  BY <1>2 DEF OneConn
<1>6. /\ listen' \in Seq(Conns) /\ Len(listen) \in Nat /\ Len(listen') = Len(listen) + 1
      /\ listen'[Len(listen) + 1] = k /\ \A i \in 1 .. Len(listen) : listen'[i] = listen[i]
  <2>1. listen' = Append(listen, k) /\ listen \in Seq(Conns)
    BY <1>2, <1>3
  <2>2. listen' \in Seq(Conns) /\ Len(listen) \in Nat /\ Len(listen') = Len(listen) + 1
    BY <2>1
  <2>3. listen'[Len(listen) + 1] = k /\ \A i \in 1 .. Len(listen) : listen'[i] = listen[i]
    BY <2>1
  <2> QED
    BY <2>2, <2>3
<1>7. \A i : i \in 1 .. Len(listen') <=> i \in 1 .. Len(listen) \/ i = Len(listen) + 1
  BY <1>6
<1>8. \A l \in Conns : InBacklog(l)' <=> InBacklog(l) \/ l = k
  BY <1>6, <1>7 DEF InBacklog
<1>9. Places'
  <2>1. \A i, j \in 1 .. Len(listen') : listen'[i] = listen'[j] => i = j
    <3>1. \A i \in 1 .. Len(listen) : listen[i] # k
      BY <1>1 DEF ServerHas, InBacklog
    <3> QED
      BY <1>6, <1>7, <3>1 DEF Places
  <2>2. \A l \in Conns, fd \in Fds : l \in fdtab'[fd] => ~InBacklog(l)'
    <3> SUFFICES ASSUME NEW l \in Conns, NEW fd \in Fds, l \in fdtab[fd] PROVE ~InBacklog(l)'
      BY <1>2
    <3>1. l # k
      BY <1>1 DEF ServerHas
    <3>2. ~InBacklog(l)
      BY DEF Places
    <3> QED
      BY <1>8, <3>1, <3>2
  <2>3. \A d, e \in Clients : \A l \in user'[d].conn : l \in user'[e].conn => d = e
    <3> SUFFICES ASSUME NEW d \in Clients, NEW e \in Clients, NEW l, l \in user'[d].conn, l \in user'[e].conn
                 PROVE  d = e
      OBVIOUS
    <3>1. \A f \in Clients : k \notin user[f].conn
      BY <1>1 DEF ClientHas
    <3>2. CASE d = c \/ e = c
      BY <1>4, <3>1, <3>2
    <3>3. CASE d # c /\ e # c
      BY <1>4, <3>3 DEF Places
    <3> QED
      BY <3>2, <3>3
  <2> QED
    BY <1>2, <2>1, <2>2, <2>3 DEF Places
<1>10. OneConn'
  BY <1>4 DEF OneConn
<1>11. Ends'
  <2>1. \A l \in Conns : ServerHas(l)' <=> ServerHas(l) \/ l = k
    BY <1>2, <1>8 DEF ServerHas
  <2>2. \A l \in Conns : ClientHas(l)' <=> ClientHas(l) \/ l = k
    BY <1>4, <1>5 DEF ClientHas
  <2>3. conn[k] = Echo!Fresh
    BY <1>1 DEF Ends
  <2>4. ~conn[k].hup /\ ~conn[k].fin /\ conn[k].down = <<>>
    BY <2>3 DEF Echo!Fresh
  <2> QED
    BY <1>2, <2>1, <2>2, <2>4 DEF Ends
<1>12. OwnWord'
  <2>1. conn[k].up = <<>> /\ conn[k].down = <<>>
    BY <1>1 DEF Ends, Echo!Fresh
  <2>2. \A w \in Workers, l \in Conns : Serves(w, l)' <=> Serves(w, l)
    BY <1>2 DEF Serves
  <2>3. \A w \in Workers : ~Serves(w, k)
    <3>1. \A w \in Workers : job[w] \subseteq Fds
      BY JobsTyped
    <3> QED
      BY <1>1, <3>1 DEF Serves, ServerHas
  <2>4. ASSUME NEW d \in Clients, NEW l \in user'[d].conn
        PROVE  /\ user'[d].pc = "typing" =>
                    /\ conn[l].up = <<>> /\ conn[l].down = <<>>
                    /\ \A w \in Workers : Serves(w, l)' => word[w] = <<>>
               /\ user'[d].pc = "reading" =>
                    /\ conn[l].up \in {<<>>, <<user'[d].word>>} /\ conn[l].down \in {<<>>, <<Echo!Find(user'[d].word)>>}
                    /\ \A w \in Workers : Serves(w, l)' => word[w] \in {<<>>, <<user'[d].word>>}
    <3>1. CASE d = c
      <4>1. l = k
        BY <1>4, <3>1
      <4> QED
        BY <1>4, <2>1, <2>2, <2>3, <3>1, <4>1
    <3>2. CASE d # c
      <4>1. user'[d] = user[d] /\ l \in user[d].conn /\ l \in Conns
        BY <1>3, <1>4, <3>2
      <4> QED
        BY <2>2, <4>1 DEF OwnWord
    <3> QED
      BY <3>1, <3>2
  <2>5. \A d \in Clients : /\ user'[d].pc \in {"typing", "reading"} => user'[d].answer = <<>>
                           /\ user'[d].answer \in {<<>>, <<Echo!Find(user'[d].word)>>}
    BY <1>4 DEF OwnWord
  <2> QED
    BY <1>2, <2>4, <2>5 DEF OwnWord
<1>13. Jobs' /\ EchoTypes' /\ Attempts'
  <2>1. Jobs'
    BY <1>2 DEF Jobs, Queued
  <2>2. EchoTypes'
    BY <1>2, <1>4, <1>6 DEF EchoTypes
  <2>3. Attempts'
    BY <1>2, <1>4 DEF Attempts
  <2> QED
    BY <2>1, <2>2, <2>3
<1> QED
  BY <1>9, <1>10, <1>11, <1>12, <1>13 DEF EchoRest

\* connect fails: one attempt less, one failure more.
LEMMA EchoFails ==
  ASSUME EchoPool, EchoRest, NEW c \in Clients, Echo!ConnectFail(c)
  PROVE  EchoRest'
<1> EchoTypes /\ Places /\ OneConn /\ Jobs /\ Ends /\ OwnWord /\ Attempts
  BY DEF EchoRest
<1>1. /\ user' = [user EXCEPT ![c].cnt = @ - 1, ![c].refused = @ + 1,
                              ![c].pc = IF user[c].cnt = 1 THEN "offline" ELSE "connect"]
      /\ UNCHANGED <<server, fdtab, listen, tasks, worker, job, word, conn>> /\ user[c].pc = "connect"
  BY DEF Echo!ConnectFail, Echo!poolVars
<1>2. user[c] \in EchoUsers /\ user \in [Clients -> EchoUsers]
  BY DEF EchoTypes
<1>3. user[c].cnt \in Nat /\ user[c].refused \in Nat /\ user[c].cnt # 0 /\ Retries[c] \in Nat
      /\ user[c].cnt + user[c].refused >= Retries[c] /\ user[c].cnt <= Retries[c]
  BY <1>1, <1>2, EchoAssumption DEF EchoUsers, Attempts
<1>4. /\ user'[c].cnt = user[c].cnt - 1 /\ user'[c].refused = user[c].refused + 1
      /\ user'[c].pc = (IF user[c].cnt = 1 THEN "offline" ELSE "connect")
      /\ user'[c].conn = user[c].conn /\ user'[c].word = user[c].word /\ user'[c].answer = user[c].answer
      /\ \A d \in Clients : d # c => user'[d] = user[d]
  BY <1>1, <1>2 DEF EchoUsers
<1>5. user' \in [Clients -> EchoUsers]
  <2>1. user[c].cnt - 1 \in Nat /\ user[c].refused + 1 \in Nat
    BY <1>3
  <2>2. (IF user[c].cnt = 1 THEN "offline" ELSE "connect") \in {"connect", "typing", "reading", "offline", "left"}
    OBVIOUS
  <2> QED
    BY <1>1, <1>2, <2>1, <2>2 DEF EchoUsers
<1>6. \A d \in Clients : /\ user'[d].conn = user[d].conn /\ user'[d].word = user[d].word
                         /\ user'[d].answer = user[d].answer
                         /\ user'[d].pc \in {"typing", "reading"} => user'[d].pc = user[d].pc
                         /\ user[d].pc \in {"typing", "reading"} => user'[d].pc = user[d].pc
  <2> SUFFICES ASSUME NEW d \in Clients
               PROVE  /\ user'[d].conn = user[d].conn /\ user'[d].word = user[d].word
                      /\ user'[d].answer = user[d].answer
                      /\ user'[d].pc \in {"typing", "reading"} => user'[d].pc = user[d].pc
                      /\ user[d].pc \in {"typing", "reading"} => user'[d].pc = user[d].pc
    OBVIOUS
  <2>1. CASE d = c
    <3>1. user'[c].pc \notin {"typing", "reading"}
      BY <1>4
    <3> QED
      BY <1>1, <1>4, <2>1, <3>1
  <2>2. CASE d # c
    BY <1>4, <2>2
  <2> QED
    BY <2>1, <2>2
<1>7. EchoTypes' /\ Places' /\ Jobs'
  BY <1>1, <1>5, <1>6 DEF EchoTypes, Places, InBacklog, Jobs, Queued
<1>8. OneConn'
  BY <1>6 DEF OneConn
<1>9. Ends'
  <2>1. \A l \in Conns : (ServerHas(l)' <=> ServerHas(l)) /\ (ClientHas(l)' <=> ClientHas(l))
    BY <1>1, <1>6 DEF ServerHas, ClientHas, InBacklog
  <2> QED
    BY <1>1, <2>1 DEF Ends
<1>10. OwnWord'
  <2>1. \A w \in Workers, l \in Conns : Serves(w, l)' <=> Serves(w, l)
    BY <1>1 DEF Serves
  <2>2. \A d \in Clients : user[d].conn \subseteq Conns
    BY DEF EchoTypes, EchoUsers
  <2>3. \A d \in Clients : \A l \in user'[d].conn :
          /\ user'[d].pc = "typing" =>
               /\ conn'[l].up = <<>> /\ conn'[l].down = <<>>
               /\ \A w \in Workers : Serves(w, l)' => word'[w] = <<>>
          /\ user'[d].pc = "reading" =>
               /\ conn'[l].up \in {<<>>, <<user'[d].word>>} /\ conn'[l].down \in {<<>>, <<Echo!Find(user'[d].word)>>}
               /\ \A w \in Workers : Serves(w, l)' => word'[w] \in {<<>>, <<user'[d].word>>}
    <3> SUFFICES ASSUME NEW d \in Clients, NEW l \in user[d].conn
                 PROVE  /\ user[d].pc = "typing" =>
                             /\ conn[l].up = <<>> /\ conn[l].down = <<>>
                             /\ \A w \in Workers : Serves(w, l)' => word[w] = <<>>
                        /\ user[d].pc = "reading" =>
                             /\ conn[l].up \in {<<>>, <<user[d].word>>} /\ conn[l].down \in {<<>>, <<Echo!Find(user[d].word)>>}
                             /\ \A w \in Workers : Serves(w, l)' => word[w] \in {<<>>, <<user[d].word>>}
      BY <1>1, <1>6
    <3>1. l \in Conns
      BY <2>2
    <3> QED
      BY <2>1, <3>1 DEF OwnWord
  <2>4. \A d \in Clients : /\ user'[d].pc \in {"typing", "reading"} => user'[d].answer = <<>>
                           /\ user'[d].answer \in {<<>>, <<Echo!Find(user'[d].word)>>}
    BY <1>6 DEF OwnWord
  <2> QED
    BY <1>1, <2>3, <2>4 DEF OwnWord
<1>11. Attempts'
  <2>1. user'[c].cnt + user'[c].refused >= Retries[c] /\ user'[c].cnt <= Retries[c] /\ (user'[c].pc = "offline" <=> user'[c].cnt = 0)
    BY <1>3, <1>4
  <2>2. user'[c].pc # "offline" => user'[c].cnt # 0
    BY <2>1
  <2> SUFFICES ASSUME NEW d \in Clients
               PROVE  /\ user'[d].pc \in {"connect", "offline"} => user'[d].cnt + user'[d].refused >= Retries[d]
                      /\ user'[d].cnt <= Retries[d]
                      /\ user'[d].pc = "offline" => user'[d].cnt = 0
                      /\ user'[d].pc # "offline" => user'[d].cnt # 0
    BY DEF Attempts
  <2>3. CASE d = c
    BY <2>1, <2>2, <2>3
  <2>4. CASE d # c
    BY <1>4, <2>4 DEF Attempts
  <2> QED
    BY <2>3, <2>4
<1> QED
  BY <1>7, <1>8, <1>9, <1>10, <1>11 DEF EchoRest

\* A client closes its connection.
LEMMA ClientCloses ==
  ASSUME EchoPool, EchoRest, NEW c \in Clients, user[c].pc \in {"typing", "reading"}, conn' = Echo!Hangup(c),
         UNCHANGED <<server, fdtab, listen, tasks, worker, job, word>>,
         user' \in [Clients -> EchoUsers], \A d \in Clients : d # c => user'[d] = user[d],
         user'[c].conn = {}, user'[c].pc \in {"connect", "left"}, user'[c].cnt # 0,
         user'[c].answer \in {<<>>, <<Echo!Find(user'[c].word)>>},
         user'[c].pc = "connect" => user'[c].cnt + user'[c].refused >= Retries[c], user'[c].cnt <= Retries[c]
  PROVE  EchoRest'
<1> EchoTypes /\ Places /\ OneConn /\ Jobs /\ Ends /\ OwnWord /\ Attempts
  BY DEF EchoRest
<1> PICK k \in Conns : user[c].conn = {k}
  BY DEF OneConn
<1>1. conn \in [Conns -> EchoLinks] /\ conn[k] \in EchoLinks /\ \A d \in Clients : user[d].conn \subseteq Conns
  BY DEF EchoTypes, EchoUsers
<1>2. conn' = [conn EXCEPT ![k] = Echo!CloseSide(conn[k], "client")]
  BY <1>1 DEF Echo!Hangup
<1>3. conn'[k] = Echo!CloseSide(conn[k], "client") /\ \A l \in Conns : l # k => conn'[l] = conn[l]
  BY <1>1, <1>2
<1>4. /\ conn[k].hup => conn'[k] = Echo!Fresh
      /\ ~conn[k].hup => conn'[k].hup = conn[k].hup /\ conn'[k].fin = TRUE /\ conn'[k].down = conn[k].down
      /\ conn'[k] \in EchoLinks
  <2>1. Echo!Fresh \in EchoLinks
    BY DEF Echo!Fresh, EchoLinks, OneWord, OneAnswer
  <2>2. CASE conn[k].hup
    BY <1>3, <2>1, <2>2 DEF Echo!CloseSide
  <2>3. CASE ~conn[k].hup
    <3>1. conn'[k] = [conn[k] EXCEPT !.fin = TRUE]
      BY <1>3, <2>3 DEF Echo!CloseSide
    <3> QED
      BY <1>1, <2>3, <3>1 DEF EchoLinks
  <2> QED
    BY <2>2, <2>3
<1>5. EchoTypes'
  <2>1. conn' \in [Conns -> EchoLinks]
    BY <1>1, <1>2, <1>3, <1>4
  <2> QED
    BY <2>1 DEF EchoTypes
<1>6. \A d \in Clients : user'[d].conn = IF d = c THEN {} ELSE user[d].conn
  OBVIOUS
<1>7. Places' /\ OneConn' /\ Jobs'
  <2>1. Places'
    BY <1>6 DEF Places, InBacklog
  <2>2. OneConn'
    BY DEF OneConn
  <2>3. Jobs'
    BY DEF Jobs, Queued
  <2> QED
    BY <2>1, <2>2, <2>3
<1>8. Ends'
  <2>1. \A l \in Conns : ServerHas(l)' <=> ServerHas(l)
    BY DEF ServerHas, InBacklog
  <2>2. ClientHas(k) /\ ~ClientHas(k)'
    BY <1>6 DEF ClientHas, Places
  <2>3. \A l \in Conns : l # k => (ClientHas(l)' <=> ClientHas(l))
    BY <1>6 DEF ClientHas
  <2>4. /\ ServerHas(k) => ~conn[k].hup /\ conn[k].down = <<>>
        /\ ~ServerHas(k) => conn[k].hup
    BY <2>2 DEF Ends
  <2> QED
    BY <1>3, <1>4, <2>1, <2>2, <2>3, <2>4 DEF Ends
<1>9. OwnWord'
  <2>1. \A w \in Workers, l \in Conns : Serves(w, l)' <=> Serves(w, l)
    BY DEF Serves
  <2>2. ASSUME NEW d \in Clients, NEW l \in user'[d].conn
        PROVE  /\ user'[d] = user[d] /\ l \in user[d].conn /\ l \in Conns /\ conn'[l] = conn[l]
    <3>1. d # c /\ l \in user[d].conn
      BY <1>6
    <3>2. l # k
      BY <3>1 DEF Places
    <3> QED
      BY <1>1, <1>3, <3>1, <3>2
  <2>3. \A d \in Clients : \A l \in user'[d].conn :
          /\ user'[d].pc = "typing" =>
               /\ conn'[l].up = <<>> /\ conn'[l].down = <<>>
               /\ \A w \in Workers : Serves(w, l)' => word'[w] = <<>>
          /\ user'[d].pc = "reading" =>
               /\ conn'[l].up \in {<<>>, <<user'[d].word>>} /\ conn'[l].down \in {<<>>, <<Echo!Find(user'[d].word)>>}
               /\ \A w \in Workers : Serves(w, l)' => word'[w] \in {<<>>, <<user'[d].word>>}
    BY <2>1, <2>2 DEF OwnWord
  <2>4. \A d \in Clients : /\ user'[d].pc \in {"typing", "reading"} => user'[d].answer = <<>>
                           /\ user'[d].answer \in {<<>>, <<Echo!Find(user'[d].word)>>}
    BY DEF OwnWord
  <2> QED
    BY <2>3, <2>4 DEF OwnWord
<1>10. Attempts'
  BY DEF Attempts
<1> QED
  BY <1>5, <1>7, <1>8, <1>9, <1>10 DEF EchoRest

\* The user types a word, or ends the service with an empty line.
LEMMA EchoTypesLine ==
  ASSUME EchoPool, EchoRest, NEW c \in Clients, Echo!Type(c)
  PROVE  EchoRest'
<1> EchoTypes /\ Places /\ OneConn /\ Jobs /\ Ends /\ OwnWord /\ Attempts
  BY DEF EchoRest
<1>1. /\ user[c].pc = "typing" /\ UNCHANGED <<server, fdtab, listen, tasks, worker, job, word>>
      /\ user[c] \in EchoUsers /\ user \in [Clients -> EchoUsers] /\ conn \in [Conns -> EchoLinks]
      /\ \A d \in Clients : user[d].conn \subseteq Conns
  BY DEF Echo!Type, Echo!poolVars, EchoTypes, EchoUsers
<1> PICK k \in Conns : user[c].conn = {k}
  BY <1>1 DEF OneConn
<1> PICK x \in Words[c][user[c].n + 1] :
      \/ /\ x = Empty
         /\ user' = [user EXCEPT ![c] = [Echo!NextService(c) EXCEPT !.n = @ + 1]]
         /\ conn' = Echo!Hangup(c)
      \/ /\ x # Empty
         /\ user' = [user EXCEPT ![c].pc = "reading", ![c].n = @ + 1, ![c].word = x]
         /\ conn' = [l \in Conns |-> IF l \in user[c].conn THEN [conn[l] EXCEPT !.up = Append(@, x)] ELSE conn[l]]
  BY DEF Echo!Type
<1>x. x \in STRING
  <2>1. user[c].n \in Nat /\ user[c].n < Len(Words[c])
    BY <1>1 DEF EchoUsers, Echo!Type
  <2>2. Words[c] \in Seq(SUBSET STRING)
    BY EchoAssumption
  <2>3. user[c].n + 1 \in 1 .. Len(Words[c])
    BY <2>1, <2>2
  <2>4. Words[c][user[c].n + 1] \in SUBSET STRING
    BY <2>2, <2>3
  <2> QED
    BY <2>4
<1>2. CASE x = Empty
  <2>1. user' = [user EXCEPT ![c] = [Echo!NextService(c) EXCEPT !.n = @ + 1]] /\ conn' = Echo!Hangup(c)
    BY <1>2
  <2>2. [Echo!NextService(c) EXCEPT !.n = @ + 1]
          = [user[c] EXCEPT !.pc = "connect", !.conn = {}, !.cnt = Retries[c], !.n = @ + 1]
    BY <1>1 DEF Echo!NextService, EchoUsers
  <2>3. Retries[c] \in Nat /\ Retries[c] # 0
    BY EchoAssumption
  <2>4. /\ user' \in [Clients -> EchoUsers] /\ \A d \in Clients : d # c => user'[d] = user[d]
        /\ user'[c].conn = {} /\ user'[c].pc = "connect" /\ user'[c].cnt = Retries[c]
        /\ user'[c].answer = user[c].answer /\ user'[c].word = user[c].word /\ user'[c].refused = user[c].refused
    <3>1. user[c].n + 1 \in Nat
      BY <1>1 DEF EchoUsers
    <3>2. user' = [user EXCEPT ![c] = [user[c] EXCEPT !.pc = "connect", !.conn = {}, !.cnt = Retries[c], !.n = user[c].n + 1]]
      BY <2>1, <2>2
    <3> PICK u : u = [user[c] EXCEPT !.pc = "connect", !.conn = {}, !.cnt = Retries[c], !.n = user[c].n + 1]
      OBVIOUS
    <3>3. /\ u \in EchoUsers /\ u.conn = {} /\ u.pc = "connect" /\ u.cnt = Retries[c]
          /\ u.answer = user[c].answer /\ u.word = user[c].word /\ u.refused = user[c].refused
      BY <1>1, <2>3, <3>1 DEF EchoUsers
    <3>4. user'[c] = u /\ user' \in [Clients -> EchoUsers] /\ \A d \in Clients : d # c => user'[d] = user[d]
      BY <1>1, <3>2, <3>3
    <3> QED
      BY <3>3, <3>4
  <2>5. user[c].refused \in Nat /\ user[c].answer \in {<<>>, <<Echo!Find(user[c].word)>>}
    BY <1>1 DEF EchoUsers, OwnWord
  <2>6. user'[c].cnt + user'[c].refused >= Retries[c] /\ user'[c].cnt # 0 /\ user'[c].cnt <= Retries[c]
    BY <2>3, <2>4, <2>5
  <2>7. user'[c].answer \in {<<>>, <<Echo!Find(user'[c].word)>>} /\ user'[c].pc \in {"connect", "left"}
    BY <2>4, <2>5
  <2>8. user[c].pc \in {"typing", "reading"}
    BY <1>1
  <2> QED
    BY <1>1, <2>1, <2>4, <2>6, <2>7, <2>8, ClientCloses
<1>3. CASE x # Empty
  <2>1. /\ user' = [user EXCEPT ![c].pc = "reading", ![c].n = @ + 1, ![c].word = x] /\ x \in STRING
        /\ conn' = [l \in Conns |-> IF l \in user[c].conn THEN [conn[l] EXCEPT !.up = Append(@, x)] ELSE conn[l]]
    BY <1>3, <1>x
  <2>2. conn[k].up = <<>> /\ conn[k].down = <<>>
    BY <1>1 DEF OwnWord
  <2>3. Append(conn[k].up, x) = <<x>>
    BY <2>2
  <2>4. /\ conn'[k].up = <<x>> /\ conn'[k].down = conn[k].down /\ conn'[k].fin = conn[k].fin /\ conn'[k].hup = conn[k].hup
        /\ conn' \in [Conns -> EchoLinks] /\ \A l \in Conns : l # k => conn'[l] = conn[l]
    <3>1. conn[k] \in EchoLinks /\ <<x>> \in OneWord
      BY <1>1, <2>1 DEF OneWord
    <3>2. conn'[k] = [conn[k] EXCEPT !.up = <<x>>]
      BY <2>1, <2>3, <3>1 DEF EchoLinks
    <3>3. \A l \in Conns : l # k => conn'[l] = conn[l]
      BY <2>1
    <3>4. conn'[k] \in EchoLinks
      BY <3>1, <3>2 DEF EchoLinks
    <3>5. conn' \in [Conns -> EchoLinks]
      BY <1>1, <2>1, <3>3, <3>4
    <3> QED
      BY <3>1, <3>2, <3>3, <3>5 DEF EchoLinks
  <2>5. /\ user' \in [Clients -> EchoUsers] /\ \A d \in Clients : d # c => user'[d] = user[d]
        /\ user'[c].pc = "reading" /\ user'[c].conn = user[c].conn /\ user'[c].word = x
        /\ user'[c].answer = user[c].answer /\ user'[c].cnt = user[c].cnt
    <3>1. user[c].n + 1 \in Nat
      BY <1>1 DEF EchoUsers
    <3> PICK u : u = [user[c] EXCEPT !.pc = "reading", !.n = user[c].n + 1, !.word = x]
      OBVIOUS
    <3>2. user' = [user EXCEPT ![c] = u]
      BY <2>1
    <3>3. /\ u \in EchoUsers /\ u.pc = "reading" /\ u.conn = user[c].conn /\ u.word = x
          /\ u.answer = user[c].answer /\ u.cnt = user[c].cnt
      BY <1>1, <2>1, <3>1 DEF EchoUsers
    <3>4. user'[c] = u /\ user' \in [Clients -> EchoUsers] /\ \A d \in Clients : d # c => user'[d] = user[d]
      BY <1>1, <3>2, <3>3
    <3> QED
      BY <3>3, <3>4
  <2>6. \A d \in Clients : user'[d].conn = user[d].conn
    <3> SUFFICES ASSUME NEW d \in Clients PROVE user'[d].conn = user[d].conn
      OBVIOUS
    <3>1. d = c \/ d # c
      OBVIOUS
    <3> QED
      BY <2>5, <3>1
  <2>7. EchoTypes'
    BY <1>1, <2>4, <2>5 DEF EchoTypes
  <2>8. Places' /\ Jobs'
    BY <1>1, <2>6 DEF Places, InBacklog, Jobs, Queued
  <2>9. OneConn'
    <3> SUFFICES ASSUME NEW d \in Clients
                 PROVE  IF user'[d].pc \in {"typing", "reading"} THEN \E l \in Conns : user'[d].conn = {l}
                        ELSE user'[d].conn = {}
      BY DEF OneConn
    <3>1. CASE d = c
      BY <2>5, <3>1
    <3>2. CASE d # c
      BY <2>5, <3>2 DEF OneConn
    <3> QED
      BY <3>1, <3>2
  <2>10. Ends'
    <3>1. \A l \in Conns : (ServerHas(l)' <=> ServerHas(l)) /\ (ClientHas(l)' <=> ClientHas(l))
      BY <1>1, <2>6 DEF ServerHas, ClientHas, InBacklog
    <3>2. ClientHas(k)
      BY DEF ClientHas
    <3>3. \A l \in Conns : conn'[l].hup = conn[l].hup /\ conn'[l].fin = conn[l].fin /\ conn'[l].down = conn[l].down
      <4> SUFFICES ASSUME NEW l \in Conns
                   PROVE  conn'[l].hup = conn[l].hup /\ conn'[l].fin = conn[l].fin /\ conn'[l].down = conn[l].down
        OBVIOUS
      <4>1. l = k \/ l # k
        OBVIOUS
      <4> QED
        BY <2>4, <4>1
    <3>4. \A l \in Conns : ~ClientHas(l) => conn'[l] = conn[l]
      BY <2>4, <3>2
    <3> QED
      BY <3>1, <3>3, <3>4 DEF Ends
  <2>11. OwnWord'
    <3>1. \A w \in Workers, l \in Conns : Serves(w, l)' <=> Serves(w, l)
      BY <1>1 DEF Serves
    <3>2. \A w \in Workers : Serves(w, k) => word[w] = <<>>
      BY <1>1 DEF OwnWord
    <3>3. ASSUME NEW d \in Clients, NEW l \in user'[d].conn
          PROVE  /\ user'[d].pc = "typing" =>
                      /\ conn'[l].up = <<>> /\ conn'[l].down = <<>>
                      /\ \A w \in Workers : Serves(w, l)' => word[w] = <<>>
                 /\ user'[d].pc = "reading" =>
                      /\ conn'[l].up \in {<<>>, <<user'[d].word>>} /\ conn'[l].down \in {<<>>, <<Echo!Find(user'[d].word)>>}
                      /\ \A w \in Workers : Serves(w, l)' => word[w] \in {<<>>, <<user'[d].word>>}
      <4>1. CASE d = c
        <5>1. l = k
          BY <2>6, <4>1
        <5> QED
          BY <2>2, <2>4, <2>5, <3>1, <3>2, <4>1, <5>1
      <4>2. CASE d # c
        <5>1. user'[d] = user[d] /\ l \in user[d].conn /\ l \in Conns
          BY <1>1, <2>5, <4>2
        <5>2. l # k
          BY <4>2, <5>1 DEF Places
        <5>3. conn'[l] = conn[l]
          BY <2>4, <5>1, <5>2
        <5> QED
          BY <3>1, <5>1, <5>3 DEF OwnWord
      <4> QED
        BY <4>1, <4>2
    <3>4. ASSUME NEW d \in Clients
          PROVE  /\ user'[d].pc \in {"typing", "reading"} => user'[d].answer = <<>>
                 /\ user'[d].answer \in {<<>>, <<Echo!Find(user'[d].word)>>}
      <4>1. CASE d = c
        BY <1>1, <2>5, <4>1 DEF OwnWord
      <4>2. CASE d # c
        BY <2>5, <4>2 DEF OwnWord
      <4> QED
        BY <4>1, <4>2
    <3> QED
      BY <1>1, <3>3, <3>4 DEF OwnWord
  <2>12. Attempts'
    <3> SUFFICES ASSUME NEW d \in Clients
                 PROVE  /\ user'[d].pc \in {"connect", "offline"} => user'[d].cnt + user'[d].refused >= Retries[d]
                        /\ user'[d].cnt <= Retries[d]
                        /\ user'[d].pc = "offline" => user'[d].cnt = 0
                        /\ user'[d].pc # "offline" => user'[d].cnt # 0
      BY DEF Attempts
    <3>1. CASE d = c
      BY <1>1, <2>5, <3>1 DEF Attempts
    <3>2. CASE d # c
      BY <2>5, <3>2 DEF Attempts
    <3> QED
      BY <3>1, <3>2
  <2> QED
    BY <2>7, <2>8, <2>9, <2>10, <2>11, <2>12 DEF EchoRest
<1> QED
  BY <1>2, <1>3

\* The client has its answer, or the end of the stream.
LEMMA EchoReplied ==
  ASSUME EchoPool, EchoRest, NEW c \in Clients, Echo!ReadReply(c)
  PROVE  EchoRest'
<1> EchoTypes /\ OneConn /\ OwnWord
  BY DEF EchoRest
<1>1. /\ user[c].pc = "reading" /\ UNCHANGED <<server, fdtab, listen, tasks, worker, job, word>>
      /\ user[c] \in EchoUsers /\ user \in [Clients -> EchoUsers] /\ conn' = Echo!Hangup(c)
      /\ \A d \in Clients : user[d].conn \subseteq Conns
  BY DEF Echo!ReadReply, Echo!poolVars, EchoTypes, EchoUsers
<1> PICK k \in user[c].conn : user' = [user EXCEPT ![c] = [Echo!NextService(c) EXCEPT !.answer = conn[k].down]]
  BY DEF Echo!ReadReply
<1>2. [Echo!NextService(c) EXCEPT !.answer = conn[k].down]
        = [user[c] EXCEPT !.pc = "connect", !.conn = {}, !.cnt = Retries[c], !.answer = conn[k].down]
  BY <1>1 DEF Echo!NextService, EchoUsers
<1>3. Retries[c] \in Nat /\ Retries[c] # 0
  BY EchoAssumption
<1>4. conn[k].down \in OneAnswer /\ conn[k].down \in {<<>>, <<Echo!Find(user[c].word)>>}
  <2>1. k \in Conns
    BY <1>1
  <2> QED
    BY <1>1, <2>1 DEF EchoTypes, EchoLinks, OwnWord
<1>5. /\ user' \in [Clients -> EchoUsers] /\ \A d \in Clients : d # c => user'[d] = user[d]
      /\ user'[c].conn = {} /\ user'[c].pc = "connect" /\ user'[c].cnt = Retries[c]
      /\ user'[c].answer = conn[k].down /\ user'[c].word = user[c].word /\ user'[c].refused = user[c].refused
  BY <1>1, <1>2, <1>3, <1>4 DEF EchoUsers
<1>6. user'[c].cnt + user'[c].refused >= Retries[c] /\ user'[c].cnt # 0 /\ user'[c].cnt <= Retries[c]
  <2>1. user[c].refused \in Nat
    BY <1>1 DEF EchoUsers
  <2> QED
    BY <1>3, <1>5, <2>1
<1>7. user'[c].answer \in {<<>>, <<Echo!Find(user'[c].word)>>} /\ user'[c].pc \in {"connect", "left"}
      /\ user[c].pc \in {"typing", "reading"}
  BY <1>1, <1>4, <1>5
<1> QED
  BY <1>1, <1>5, <1>6, <1>7, ClientCloses

\* The user interrupts the client.
LEMMA EchoLeaves ==
  ASSUME EchoPool, EchoRest, NEW c \in Clients, Echo!Leave(c)
  PROVE  EchoRest'
<1> EchoTypes /\ OwnWord
  BY DEF EchoRest
<1>1. /\ user[c].pc = "typing" /\ UNCHANGED <<server, fdtab, listen, tasks, worker, job, word>>
      /\ user[c] \in EchoUsers /\ user \in [Clients -> EchoUsers] /\ conn' = Echo!Hangup(c)
      /\ user' = [user EXCEPT ![c] = [Echo!NextService(c) EXCEPT !.pc = "left", !.n = 0]]
  BY DEF Echo!Leave, Echo!poolVars, EchoTypes
<1>2. [Echo!NextService(c) EXCEPT !.pc = "left", !.n = 0]
        = [user[c] EXCEPT !.pc = "left", !.conn = {}, !.cnt = Retries[c], !.n = 0]
  BY <1>1 DEF Echo!NextService, EchoUsers
<1>3. Retries[c] \in Nat /\ Retries[c] # 0
  BY EchoAssumption
<1>4. /\ user' \in [Clients -> EchoUsers] /\ \A d \in Clients : d # c => user'[d] = user[d]
      /\ user'[c].conn = {} /\ user'[c].pc = "left" /\ user'[c].cnt = Retries[c]
      /\ user'[c].answer = user[c].answer /\ user'[c].word = user[c].word
  BY <1>1, <1>2, <1>3 DEF EchoUsers
<1>5. user[c].answer \in {<<>>, <<Echo!Find(user[c].word)>>}
  BY <1>1 DEF OwnWord
<1>6. /\ user'[c].answer \in {<<>>, <<Echo!Find(user'[c].word)>>} /\ user'[c].pc \in {"connect", "left"}
      /\ user[c].pc \in {"typing", "reading"} /\ user'[c].cnt # 0 /\ user'[c].pc # "connect"
      /\ user'[c].cnt <= Retries[c]
  BY <1>1, <1>3, <1>4, <1>5
<1> QED
  BY <1>1, <1>4, <1>6, ClientCloses

-----------------------------------------------------------------------------

\* The invariant is inductive.
LEMMA EchoStep == EchoInv /\ [Echo!Next]_echoVars => EchoInv'
<1> SUFFICES ASSUME EchoPool, EchoRest, [Echo!Next]_echoVars PROVE EchoRest'
  BY EchoPoolStep DEF EchoInv
<1>1. server \in [pc : {"down", "bound", "up"}, crashes : 0 .. MaxCrashes]
  BY DEF EchoRest, EchoTypes
<1>2. CASE Echo!Boot \/ Echo!Daemonize
  BY <1>1, <1>2, EchoStays DEF Echo!Boot, Echo!Daemonize, Echo!poolVars
<1>3. ASSUME NEW w \in Workers, Echo!StartPool(w) \/ Echo!SpuriousWakeup(w) PROVE EchoRest'
  BY <1>1, <1>3, EchoStays DEF Echo!StartPool, Echo!SpuriousWakeup, Echo!Pool!Start, Echo!Pool!SpuriousWakeup
<1>4. ASSUME NEW w \in Workers, Echo!Worker(w) \/ Echo!SpuriousWakeup(w) PROVE EchoRest'
  BY <1>3, <1>4, EchoTakes, EchoReads, EchoEnds, EchoWrites DEF Echo!Worker
<1>5. ASSUME NEW c \in Clients,
             Echo!ConnectOk(c) \/ Echo!ConnectFail(c) \/ Echo!Type(c) \/ Echo!ReadReply(c) \/ Echo!Leave(c)
      PROVE  EchoRest'
  BY <1>5, EchoConnects, EchoFails, EchoTypesLine, EchoReplied, EchoLeaves
<1>6. CASE UNCHANGED echoVars
  BY <1>1, <1>6, EchoStays DEF echoVars
<1> QED
  BY <1>2, <1>4, <1>5, <1>6, EchoAccepts, EchoCrashes DEF Echo!Next

\* The types are those the module states.
LEMMA EchoTypeOK == EchoInv => Echo!TypeOK
<1> SUFFICES ASSUME EchoInv PROVE Echo!TypeOK
  OBVIOUS
<1>1. EchoTypes /\ Places /\ Attempts /\ Echo!Pool!TypeOK
  BY DEF EchoInv, EchoRest, EchoPool
<1>2. ASSUME NEW fd \in Fds PROVE Echo!Cardinality(fdtab[fd]) <= 1
  <2>1. CASE fdtab[fd] = {}
    BY <2>1, FS_EmptySet, SameCount
  <2>2. CASE fdtab[fd] # {}
    <3> PICK k \in fdtab[fd] : TRUE
      BY <2>2
    <3>1. fdtab[fd] = {k}
      BY <1>1 DEF EchoTypes, Places
    <3>2. Cardinality({k}) = 1
      BY FS_Singleton
    <3> QED
      BY <3>1, <3>2, SameCount
  <2> QED
    BY <2>1, <2>2
<1>3. \A c \in Clients : /\ user[c].pc \in {"connect", "typing", "reading", "offline", "left"}
                         /\ user[c].cnt \in 0 .. Retries[c]
  BY <1>1, EchoAssumption DEF EchoTypes, EchoUsers, Attempts
<1> QED
  BY <1>1, <1>2, <1>3 DEF EchoTypes, Echo!TypeOK

\* The pool inside the server loses no signal.
LEMMA EchoPoolMatches == EchoInv => Echo!PoolMatchesTasks
  BY DEF EchoInv, EchoPool

\* A user has the meaning of its own word, and a descriptor has one place.
LEMMA EchoNoCrossTalk == EchoInv => Echo!NoCrossTalk
<1> SUFFICES ASSUME EchoInv PROVE Echo!NoCrossTalk
  OBVIOUS
<1>1. EchoPool /\ EchoTypes /\ Jobs /\ OwnWord
  BY DEF EchoInv, EchoRest
<1>2. ASSUME NEW c \in Clients, user[c].answer # <<>> PROVE user[c].answer = <<Echo!Meaning(user[c].word)>>
  BY <1>1, <1>2, FindIsMeaning DEF OwnWord
<1>3. ASSUME NEW fd \in Fds
      PROVE  fdtab[fd] # {} <=>
               Echo!Cardinality({i \in 1 .. Len(tasks) : tasks[i] = fd} \cup {w \in Workers : fd \in job[w]}) = 1
  <2> DEFINE places == {i \in 1 .. Len(tasks) : tasks[i] = fd} \cup {w \in Workers : fd \in job[w]}
  <2>1. fdtab[fd] # {} <=> places # {}
    BY <1>1 DEF Jobs, Queued
  <2>2. \A p, q \in places : p = q
    BY <1>1 DEF Jobs, Queued
  <2> HIDE DEF places
  <2>3. CASE places = {}
    <3>1. Cardinality(places) = 0
      BY <2>3, FS_EmptySet
    <3> QED
      BY <2>1, <2>3, <3>1, SameCount DEF places
  <2>4. CASE places # {}
    <3> PICK p \in places : TRUE
      BY <2>4
    <3>1. places = {p}
      BY <2>2
    <3>2. Cardinality(places) = 1
      BY <3>1, FS_Singleton
    <3> QED
      BY <2>1, <2>4, <3>2, SameCount DEF places
  <2> QED
    BY <2>3, <2>4
<1> QED
  BY <1>2, <1>3 DEF Echo!NoCrossTalk

\* Who is offline has used up its attempts.
LEMMA EchoGivesUp == EchoInv => Echo!OfflineOnlyAfterRetries
<1> SUFFICES ASSUME EchoInv, NEW c \in Clients, user[c].pc = "offline" PROVE user[c].refused >= Retries[c]
  BY DEF Echo!OfflineOnlyAfterRetries
<1>1. user[c].refused \in Nat /\ user[c].cnt = 0 /\ user[c].cnt + user[c].refused >= Retries[c] /\ Retries[c] \in Nat
  BY EchoAssumption DEF EchoInv, EchoRest, EchoTypes, EchoUsers, Attempts
<1> QED
  BY <1>1

-----------------------------------------------------------------------------
(***************************************************************************)
(* The specification: whichever server runs, the invariants of all hold.   *)
(***************************************************************************)
ServersInv == CalcInv /\ EchoInv /\ PoolInv /\ HttpInv

\* A step is one of each server, or leaves it as it is.
LEMMA ServersSteps ==
  ASSUME [Next]_vars
  PROVE  [Calc!Next]_calcVars /\ [Echo!Next]_echoVars /\ [Pool!Next]_poolVars /\ [Http!Next]_httpVars
  BY DEF Next, vars

\* The invariant is inductive.
LEMMA ServersInvariant == Spec => []ServersInv
<1>1. Init => ServersInv
  BY CalcInit, EchoInit, PoolInit, HttpInit, PoolAssumption DEF Init, ServersInv
<1>2. ServersInv /\ [Next]_vars => ServersInv'
  <2> SUFFICES ASSUME ServersInv, [Next]_vars PROVE ServersInv'
    OBVIOUS
  <2> CalcInv /\ EchoInv /\ PoolInv /\ HttpInv
    BY DEF ServersInv
  <2>1. CalcInv'
    BY ServersSteps, CalcStep
  <2>2. EchoInv'
    BY ServersSteps, EchoStep
  <2>3. PoolInv'
    BY ServersSteps, PoolStep, PoolAssumption
  <2>4. HttpInv'
    BY ServersSteps, HttpStep
  <2> QED
    BY <2>1, <2>2, <2>3, <2>4 DEF ServersInv
<1> QED
  BY <1>1, <1>2, PTL DEF Spec

\* Every variable of every server keeps its type.
THEOREM ServersTypeCorrect == Spec => []TypeOK
<1>1. ServersInv => TypeOK
  BY CalcTypeOK, EchoTypeOK, HttpTypeOK DEF ServersInv, PoolInv, TypeOK
<1> QED
  BY <1>1, ServersInvariant, PTL

\* The i-th answer a calculator client takes out of the stream is the right one to its
\* i-th question, and one that asks again has nothing of the last answer left (Encode,
\* Decode, CalculatorHelper and Run of 3.Net), for any questions and any cuts.
THEOREM CalcAnswersMatch == Spec => []AnswersMatchQuestions
<1>1. ServersInv => AnswersMatchQuestions
  BY CalcAnswers DEF ServersInv, AnswersMatchQuestions
<1> QED
  BY <1>1, ServersInvariant, PTL

\* The forked children are a request-reply service but for its fairness: they answer
\* each question once and in order, and exit when none is left (Run of TcpServer.hpp
\* in 3.Net), for any clients, questions, cuts and failures of fork.
THEOREM CalcRefines == Spec => Calc!Abstract!Init /\ [][Calc!Abstract!Next]_(Calc!Abstract!vars)
<1>1. Init => Calc!Abstract!Init
  BY RefinesInit DEF Init
<1>2. ServersInv /\ [Next]_vars => [Calc!Abstract!Next]_(Calc!Abstract!vars)
  BY ServersSteps, RefinesStep DEF ServersInv
<1> QED
  BY <1>1, <1>2, ServersInvariant, PTL DEF Spec

\* No signal is lost in either thread pool: while tasks wait, as many workers are awake
\* or all of them are (Push and CarryTask of 2.Net and thread_4), for any
\* workers and any bound.
THEOREM PoolsLoseNoSignal == Spec => []WorkersMatchTasks
<1>1. ServersInv => WorkersMatchTasks
  BY EchoPoolMatches DEF ServersInv, PoolInv, WorkersMatchTasks
<1> QED
  BY <1>1, ServersInvariant, PTL

\* A client of the echo server is answered with the meaning of its own word, whatever the
\* dictionary's file says, however descriptors are reused and however often the server
\* dies; and an open descriptor is queued once or served by one worker (Run, CarryTask,
\* Task::Run and Find).
THEOREM EchoNeverMixesUp == Spec => []NoCrossTalk
<1>1. ServersInv => NoCrossTalk
  BY EchoNoCrossTalk DEF ServersInv, NoCrossTalk
<1> QED
  BY <1>1, ServersInvariant, PTL

\* The reconnecting client gives up only after all its attempts failed in a row (main of
\* Client.cc), for any number of attempts.
THEOREM EchoClientRetries == Spec => []OfflineOnlyAfterRetries
<1>1. ServersInv => OfflineOnlyAfterRetries
  BY EchoGivesUp DEF ServersInv, OfflineOnlyAfterRetries
<1> QED
  BY <1>1, ServersInvariant, PTL

\* A client of the HTTP server is sent what its own request asked for, whatever the
\* heap and the descriptor table have been used for before (Run, ThreadRun,
\* HttpRequestHandler and Deserialize), for any clients, descriptors, cells and requests.
THEOREM HttpOwnAnswer == Spec => []OwnAnswer
<1>1. ServersInv => OwnAnswer
  BY DEF ServersInv, HttpInv, OwnAnswer
<1> QED
  BY <1>1, ServersInvariant, PTL
==============================================================================
