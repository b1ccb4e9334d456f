------------------------- MODULE ProcessPoolProofs --------------------------
(***************************************************************************)
(* ProcessPool for any number of children: nobody keeps a write end of     *)
(* somebody else's pipe for good, and no child ends with a task undone.    *)
(***************************************************************************)
EXTENDS ProcessPool, SequenceTheorems, TLAPS

\* The children that the father's loop has not come to.
Unborn == fpc = "fork" => \A i \in Children : i >= idx => cpc[i] = "none"

\* The father keeps its write end of a living child's pipe until it closes it ...
FatherHolds == \A i \in Children : cpc[i] # "none" /\ ~Closed(i) => Father \in writers[i]

\* ... and what it has written there is what the child has run and what is on its way.
Flow == \A i \in Children : sent[i] = ran[i] \o pipe[i]

IInv == TypeOK /\ Unborn /\ FatherHolds /\ Flow /\ NoForgottenWriteEnd /\ NoTaskLost

-----------------------------------------------------------------------------

\* What a child inherits: every pipe up to its own, each of them once.
LEMMA Inherited ==
  ASSUME NEW i \in Children
  PROVE  LET s == <<i>> \o [j \in 1 .. i - 1 |-> j]
         IN  s \in Seq(Children) /\ \A k \in 1 .. i : \E m \in 1 .. Len(s) : s[m] = k
<1> DEFINE t == [j \in 1 .. i - 1 |-> j]
           s == <<i>> \o t
<1> i \in Nat /\ i >= 1 /\ i <= N /\ N \in Nat
  BY ProcessPoolAssumption DEF Children
<1>1. t \in Seq(Children) /\ Len(t) = i - 1
  BY DEF Children
<1>2. s \in Seq(Children) /\ Len(s) = i
  BY <1>1
<1>3. s[1] = i /\ \A k \in 1 .. i - 1 : s[k + 1] = k
  BY <1>1
<1>4. ASSUME NEW k \in 1 .. i PROVE \E m \in 1 .. Len(s) : s[m] = k
  <2>1. CASE k = i
    BY <2>1, <1>2, <1>3
  <2>2. CASE k # i
    BY <2>2, <1>2, <1>3
  <2> QED
    BY <2>1, <2>2
<1> QED
  BY <1>2, <1>4

\* Reading a code from the pipe takes it from the front of what is on its way to the
\* end of what has been run; writing one puts it at the other end.
LEMMA ReadKeepsFlow ==
  ASSUME NEW r \in Seq(Code), NEW p \in Seq(Code), p # <<>>
  PROVE  Append(r, Head(p)) \o Tail(p) = r \o p
<1>1. p = <<Head(p)>> \o Tail(p) /\ Head(p) \in Code /\ Tail(p) \in Seq(Code)
  OBVIOUS
<1>2. Append(r, Head(p)) = r \o <<Head(p)>>
  BY <1>1
<1> QED
  BY <1>1, <1>2, ConcatAssociative

\* Appending to the second of two sequences that are put together.
LEMMA WriteKeepsFlow ==
  ASSUME NEW r \in Seq(Code), NEW p \in Seq(Code), NEW code \in Code
  PROVE  Append(r \o p, code) = r \o Append(p, code)
  OBVIOUS

\* Closing the first write end of the list leaves the others in it.
LEMMA TailKeepsOthers ==
  ASSUME NEW s \in Seq(Children), s # <<>>, NEW k \in 1 .. Len(s), s[k] # Head(s)
  PROVE  \E m \in 1 .. Len(Tail(s)) : Tail(s)[m] = s[k]
<1>1. k - 1 \in 1 .. Len(Tail(s)) /\ Tail(s)[k - 1] = s[k]
  OBVIOUS
<1> QED
  BY <1>1

-----------------------------------------------------------------------------

\* The initial states satisfy the invariant.
LEMMA PoolInit == Init => IInv
  BY ProcessPoolAssumption
  DEF Init, IInv, TypeOK, Unborn, FatherHolds, Flow, NoForgottenWriteEnd, NoTaskLost, Children, Closed

\* Each step keeps it: one case for an action of the father ...
LEMMA FatherKeeps == ASSUME IInv, FatherStep PROVE IInv'
<1> USE ProcessPoolAssumption DEF IInv
<1>1. CASE Fork
  <2> DEFINE s == <<idx>> \o [j \in 1 .. idx - 1 |-> j]
  <2>1. idx \in Children /\ s \in Seq(Children) /\ \A k \in 1 .. idx : \E m \in 1 .. Len(s) : s[m] = k
    BY Inherited DEF TypeOK
  <2>2. toclose' = [toclose EXCEPT ![idx] = s] /\ cpc' = [cpc EXCEPT ![idx] = "setup"]
    BY <1>1 DEF Fork
  <2> HIDE DEF s
  <2>3. \A i \in Children : writers'[i] = IF i < idx THEN writers[i] \cup {idx}
                                          ELSE IF i = idx THEN {Father, idx} ELSE {}
    BY <1>1 DEF Fork
  <2>4. TypeOK'
    <3>1. writers' \in [Children -> SUBSET (Children \cup {Father})]
      BY <1>1, <2>1 DEF Fork, TypeOK
    <3>2. idx' \in Children /\ fpc' \in {"fork", "menu"}
      BY <1>1 DEF Fork, TypeOK, Children
    <3> QED
      BY <1>1, <2>1, <2>2, <3>1, <3>2 DEF Fork, TypeOK
  <2>5. Unborn'
    BY <1>1, <2>2 DEF Fork, Unborn, TypeOK, Children
  <2>6. FatherHolds'
    BY <1>1, <2>2, <2>3 DEF Fork, FatherHolds, Unborn, Closed, TypeOK, Children
  <2>7. Flow'
    BY <1>1 DEF Fork, Flow
  <2>8. NoForgottenWriteEnd'
    <3> SUFFICES ASSUME NEW i \in Children, NEW j \in Children, j \in writers'[i]
                 PROVE  cpc'[j] = "setup" /\ \E k \in 1 .. Len(toclose'[j]) : toclose'[j][k] = i
      BY DEF NoForgottenWriteEnd
    <3>0. /\ j # Father /\ i \in Nat /\ i >= 1 /\ idx \in Nat
          /\ \/ i < idx /\ writers'[i] = writers[i] \cup {idx}
             \/ i = idx /\ writers'[i] = {Father, idx}
             \/ writers'[i] = {}
      <4>1. j # Father /\ i \in Nat /\ i >= 1 /\ idx \in Nat
        BY <2>1 DEF Children, Father
      <4>2. writers'[i] = IF i < idx THEN writers[i] \cup {idx} ELSE IF i = idx THEN {Father, idx} ELSE {}
        BY <2>3
      <4>3. CASE i < idx
        BY <4>1, <4>2, <4>3
      <4>4. CASE i = idx
        BY <4>1, <4>2, <4>4
      <4>5. CASE ~(i < idx) /\ i # idx
        BY <4>1, <4>2, <4>5
      <4> QED
        BY <4>3, <4>4, <4>5
    <3>1. CASE j = idx
      <4>1. i \in 1 .. idx
        BY <3>0
      <4>2. toclose'[j] = s /\ cpc'[j] = "setup"
        BY <2>2, <3>1 DEF TypeOK
      <4> QED
        BY <4>1, <4>2, <2>1
    <3>2. CASE j # idx
      <4>1. j \in writers[i]
        BY <3>0, <3>2
      <4>2. toclose'[j] = toclose[j] /\ cpc'[j] = cpc[j]
        BY <2>2, <3>2 DEF TypeOK
      <4> QED
        BY <4>1, <4>2 DEF NoForgottenWriteEnd
    <3> QED
      BY <3>1, <3>2
  <2>9. NoTaskLost'
    BY <1>1, <2>2 DEF Fork, NoTaskLost, Closed, TypeOK
  <2> QED
    BY <2>4, <2>5, <2>6, <2>7, <2>8, <2>9
<1>2. CASE Close
  <2>1. TypeOK' /\ Unborn' /\ Flow'
    BY <1>2 DEF Close, TypeOK, Unborn, Flow, childVars
  <2>2. FatherHolds'
    BY <1>2 DEF Close, FatherHolds, Closed, TypeOK, childVars, Children
  <2>3. NoForgottenWriteEnd'
    BY <1>2 DEF Close, NoForgottenWriteEnd, TypeOK, childVars
  <2>4. NoTaskLost'
    BY <1>2 DEF Close, NoTaskLost, Closed, childVars
  <2> QED
    BY <2>1, <2>2, <2>3, <2>4
<1>3. CASE WaitPid
  <2>1. TypeOK'
    BY <1>3 DEF WaitPid, TypeOK, pipeVars, Children
  <2>5. Unborn' /\ Flow'
    BY <1>3 DEF WaitPid, Unborn, Flow, pipeVars
  <2>2. \A i \in Children : Closed(i) => Closed(i)'
    BY <1>3 DEF WaitPid, Closed, TypeOK, Children
  <2>3. FatherHolds' /\ NoTaskLost'
    BY <1>3, <2>2 DEF WaitPid, FatherHolds, NoTaskLost, TypeOK, pipeVars
  <2>4. NoForgottenWriteEnd'
    <3> SUFFICES ASSUME NEW i \in Children, NEW j \in Children, j \in writers[i]
                 PROVE  cpc'[j] = "setup" /\ \E k \in 1 .. Len(toclose[j]) : toclose[j][k] = i
      BY <1>3 DEF WaitPid, NoForgottenWriteEnd, pipeVars
    <3>1. cpc[j] = "setup" /\ \E k \in 1 .. Len(toclose[j]) : toclose[j][k] = i
      BY DEF NoForgottenWriteEnd
    <3>2. cpc'[j] = cpc[j]
      BY <1>3, <3>1 DEF WaitPid, TypeOK
    <3> QED
      BY <3>1, <3>2
  <2> QED
    BY <2>1, <2>3, <2>4, <2>5
<1> QED
  BY <1>1, <1>2, <1>3 DEF FatherStep

\* ... one for the menu ...
LEMMA MenuKeeps ==
  ASSUME IInv, (\E code \in Code : Allocate(code)) \/ (\E input \in {"zero", "garbage"} : Quit(input))
  PROVE  IInv'
<1> USE ProcessPoolAssumption DEF IInv
<1>1. ASSUME NEW code \in Code, Allocate(code) PROVE IInv'
  <2>1. which' \in Children
    BY <1>1 DEF Allocate, TypeOK, Children
  <2>2. TypeOK'
    <3>1. \A f \in [Children -> Seq(Code)] : [f EXCEPT ![which] = Append(@, code)] \in [Children -> Seq(Code)]
      BY DEF TypeOK
    <3>2. pipe' \in [Children -> Seq(Code)] /\ sent' \in [Children -> Seq(Code)]
      BY <1>1, <3>1 DEF Allocate, TypeOK
    <3> QED
      BY <1>1, <2>1, <3>2 DEF Allocate, TypeOK, childVars
  <2>3. Unborn' /\ FatherHolds' /\ NoForgottenWriteEnd'
    BY <1>1 DEF Allocate, Unborn, FatherHolds, NoForgottenWriteEnd, Closed, childVars
  <2>4. Flow'
    <3> SUFFICES ASSUME NEW i \in Children PROVE sent'[i] = ran'[i] \o pipe'[i]
      BY DEF Flow
    <3>1. sent[i] = ran[i] \o pipe[i] /\ ran[i] \in Seq(Code) /\ pipe[i] \in Seq(Code) /\ ran' = ran
      BY <1>1 DEF Flow, TypeOK, Allocate, childVars
    <3>2. CASE i = which
      <4>1. sent'[i] = Append(sent[i], code) /\ pipe'[i] = Append(pipe[i], code)
        BY <1>1, <3>2 DEF Allocate, TypeOK
      <4> QED
        BY <3>1, <4>1, WriteKeepsFlow
    <3>3. CASE i # which
      BY <1>1, <3>1, <3>3 DEF Allocate, TypeOK
    <3> QED
      BY <3>2, <3>3
  <2>5. NoTaskLost'
    BY <1>1 DEF Allocate, NoTaskLost, Closed, childVars
  <2> QED
    BY <2>2, <2>3, <2>4, <2>5
<1>2. ASSUME NEW input \in {"zero", "garbage"}, Quit(input) PROVE IInv'
  BY <1>2 DEF Quit, TypeOK, Unborn, FatherHolds, Flow, NoForgottenWriteEnd, NoTaskLost, Closed,
              childVars, pipeVars
<1> QED
  BY <1>1, <1>2

\* ... and one for a child's.
LEMMA ChildKeeps == ASSUME IInv, NEW i \in Children, Child(i) PROVE IInv'
<1> USE ProcessPoolAssumption DEF IInv
<1>0. i # Father
  BY DEF Children, Father
<1>1. CASE CloseInherited(i)
  <2>1. Head(toclose[i]) \in Children /\ Tail(toclose[i]) \in Seq(Children) /\ toclose[i] \in Seq(Children)
    BY <1>1 DEF CloseInherited, TypeOK
  <2>2. TypeOK' /\ Unborn' /\ Flow' /\ NoTaskLost'
    BY <1>1, <2>1 DEF CloseInherited, TypeOK, Unborn, Flow, NoTaskLost, Closed, fatherVars
  <2>3. FatherHolds'
    BY <1>0, <1>1, <2>1 DEF CloseInherited, FatherHolds, Closed, TypeOK, fatherVars
  <2>4. NoForgottenWriteEnd'
    <3> SUFFICES ASSUME NEW a \in Children, NEW j \in Children, j \in writers'[a]
                 PROVE  cpc'[j] = "setup" /\ \E k \in 1 .. Len(toclose'[j]) : toclose'[j][k] = a
      BY DEF NoForgottenWriteEnd
    <3>1. j \in writers[a] /\ (j = i => a # Head(toclose[i])) /\ cpc' = cpc
      BY <1>1, <2>1 DEF CloseInherited, TypeOK
    <3>2. PICK k \in 1 .. Len(toclose[j]) : cpc[j] = "setup" /\ toclose[j][k] = a
      BY <3>1 DEF NoForgottenWriteEnd
    <3>3. CASE j = i
      <4>1. toclose'[j] = Tail(toclose[j])
        BY <1>1, <3>3 DEF CloseInherited, TypeOK
      <4>2. toclose[j] \in Seq(Children) /\ toclose[j] # <<>> /\ toclose[j][k] # Head(toclose[j])
        BY <1>1, <2>1, <3>1, <3>2, <3>3 DEF CloseInherited
      <4>3. \E m \in 1 .. Len(Tail(toclose[j])) : Tail(toclose[j])[m] = toclose[j][k]
        BY <4>2, TailKeepsOthers
      <4> QED
        BY <3>1, <3>2, <4>1, <4>3
    <3>4. CASE j # i
      BY <1>1, <3>1, <3>2, <3>4 DEF CloseInherited, TypeOK
    <3> QED
      BY <3>3, <3>4
  <2> QED
    BY <2>2, <2>3, <2>4
<1>2. CASE StartRun(i)
  <2>1. \A a \in Children : i \notin writers[a]
    BY <1>2 DEF StartRun, NoForgottenWriteEnd
  <2>2. TypeOK' /\ Unborn' /\ Flow' /\ NoTaskLost'
    BY <1>2 DEF StartRun, TypeOK, Unborn, Flow, NoTaskLost, Closed, fatherVars, pipeVars
  <2>3. FatherHolds'
    BY <1>2 DEF StartRun, FatherHolds, Closed, TypeOK, fatherVars, pipeVars
  <2>4. NoForgottenWriteEnd'
    <3> SUFFICES ASSUME NEW a \in Children, NEW j \in Children, j \in writers[a]
                 PROVE  cpc'[j] = "setup" /\ \E k \in 1 .. Len(toclose[j]) : toclose[j][k] = a
      BY <1>2 DEF StartRun, NoForgottenWriteEnd, pipeVars
    <3>1. cpc[j] = "setup" /\ \E k \in 1 .. Len(toclose[j]) : toclose[j][k] = a
      BY DEF NoForgottenWriteEnd
    <3>2. cpc'[j] = cpc[j]
      BY <1>2, <2>1 DEF StartRun, TypeOK
    <3> QED
      BY <3>1, <3>2
  <2> QED
    BY <2>2, <2>3, <2>4
<1>3. CASE RunTask(i)
  <2>1. Head(pipe[i]) \in Code /\ Tail(pipe[i]) \in Seq(Code)
    BY <1>3 DEF RunTask, TypeOK
  <2>2. TypeOK'
    BY <1>3, <2>1 DEF RunTask, TypeOK, fatherVars
  <2>3. Unborn' /\ FatherHolds' /\ NoForgottenWriteEnd'
    BY <1>3 DEF RunTask, Unborn, FatherHolds, NoForgottenWriteEnd, Closed, fatherVars
  <2>4. Flow'
    <3> SUFFICES ASSUME NEW j \in Children PROVE sent'[j] = ran'[j] \o pipe'[j]
      BY DEF Flow
    <3>1. sent'[j] = ran[j] \o pipe[j] /\ ran[j] \in Seq(Code) /\ pipe[j] \in Seq(Code)
      BY <1>3 DEF RunTask, Flow, TypeOK, fatherVars
    <3>2. CASE j = i
      <4>1. ran'[j] = Append(ran[j], Head(pipe[j])) /\ pipe'[j] = Tail(pipe[j]) /\ pipe[j] # <<>>
        BY <1>3, <3>2 DEF RunTask, TypeOK
      <4> QED
        BY <3>1, <4>1, ReadKeepsFlow
    <3>3. CASE j # i
      BY <1>3, <3>1, <3>3 DEF RunTask, TypeOK
    <3> QED
      BY <3>2, <3>3
  <2>5. NoTaskLost'
    BY <1>3 DEF RunTask, NoTaskLost, Closed, TypeOK, fatherVars
  <2> QED
    BY <2>2, <2>3, <2>4, <2>5
<1>4. CASE ExitOnEof(i)
  <2>1. Closed(i)
    BY <1>4 DEF ExitOnEof, FatherHolds
  <2>2. ran[i] = sent[i]
    BY <1>4, ConcatEmptySeq DEF ExitOnEof, Flow, TypeOK
  <2>3. TypeOK'
    BY <1>4 DEF ExitOnEof, TypeOK, fatherVars
  <2>4. Unborn' /\ Flow'
    BY <1>4 DEF ExitOnEof, Unborn, Flow, TypeOK, fatherVars
  <2>5. FatherHolds'
    BY <1>0, <1>4 DEF ExitOnEof, FatherHolds, Closed, TypeOK, fatherVars
  <2>6. NoForgottenWriteEnd'
    BY <1>4 DEF ExitOnEof, NoForgottenWriteEnd, TypeOK, fatherVars
  <2>7. NoTaskLost'
    BY <1>4, <2>1, <2>2 DEF ExitOnEof, NoTaskLost, Closed, TypeOK, fatherVars
  <2> QED
    BY <2>3, <2>4, <2>5, <2>6, <2>7
<1> QED
  BY <1>1, <1>2, <1>3, <1>4 DEF Child

\* The invariant is inductive.
LEMMA PoolStep == IInv /\ [Next]_vars => IInv'
<1> SUFFICES ASSUME IInv, [Next]_vars PROVE IInv'
  OBVIOUS
<1>1. CASE UNCHANGED vars
  BY <1>1 DEF vars, fatherVars, childVars, pipeVars, IInv, TypeOK, Unborn, FatherHolds, Flow,
              NoForgottenWriteEnd, NoTaskLost, Closed
<1> QED
  BY <1>1, FatherKeeps, MenuKeeps, ChildKeeps DEF Next

\* The invariant is one of the specification.
LEMMA PoolInvariant == Spec => []IInv
  BY PoolInit, PoolStep, PTL DEF Spec

-----------------------------------------------------------------------------

\* Every variable keeps its type; in particular the round robin stays within 1 .. N.
THEOREM PoolTypeCorrect == Spec => []TypeOK
<1>1. IInv => TypeOK
  BY DEF IInv
<1> QED
  BY <1>1, PoolInvariant, PTL

\* A write end held by anybody but the father is one a child in setup is going to
\* close (fd_del_tab of Init), for any number of children.
THEOREM PoolNoForgottenWriteEnd == Spec => []NoForgottenWriteEnd
<1>1. IInv => NoForgottenWriteEnd
  BY DEF IInv
<1> QED
  BY <1>1, PoolInvariant, PTL

\* A child ends only after its pipe was closed and every task sent to it was run, in
\* order (Run_childpro's read and Recycle's close).
THEOREM PoolNoTaskLost == Spec => []NoTaskLost
<1>1. IInv => NoTaskLost
  BY DEF IInv
<1> QED
  BY <1>1, PoolInvariant, PTL
=============================================================================
