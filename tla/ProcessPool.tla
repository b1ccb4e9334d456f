---------------------------- MODULE ProcessPool ----------------------------
(***************************************************************************)
(* pro_interact/2.no_namepipe_use/pipeuse.cpp: a father that forks N       *)
(* children, each reading task codes from a pipe of its own, hands them    *)
(* tasks from a menu, and at the end closes the pipes and waits for the    *)
(* children one after the other.                                           *)
(*                                                                         *)
(* A child forked later inherits the father's write ends of the earlier    *)
(* pipes; as long as anybody holds a write end, the pipe's reader sees no  *)
(* end of file.                                                            *)
(***************************************************************************)
EXTENDS Integers, Sequences

CONSTANTS
  N,           \* the number of children
  Code,        \* the task codes of the menu
  MaxTasks     \* bound: tasks the user has each child run

ASSUME ProcessPoolAssumption == N \in Nat \ {0} /\ MaxTasks \in Nat

Children == 1 .. N
Father == 0

VARIABLES
  fpc,         \* the father is in "fork", "menu", "close", "wait" or "done"
  idx,         \* its loop variable: the child it forks or recycles
  which,       \* the child that gets the next task
  typed,       \* how the menu was left: "no" (not yet), "zero", "garbage"
  cpc,         \* cpc[i]: child i is "none", in "setup", in "run", "exited", "reaped"
  writers,     \* writers[i]: the processes that hold a write end of pipe i
  toclose,     \* toclose[i]: write ends child i inherited and has yet to close
  pipe,        \* pipe[i]: the codes in pipe i
  sent,        \* sent[i]: the codes the father has written to pipe i
  ran          \* ran[i]: the tasks child i has run

fatherVars == <<fpc, idx, which, typed, sent>>
childVars == <<cpc, toclose, ran>>
pipeVars == <<writers, pipe>>
vars == <<fatherVars, childVars, pipeVars>>

Init ==
  /\ fpc = "fork" /\ idx = 1 /\ which = 1 /\ typed = "no"
  /\ cpc = [i \in Children |-> "none"]
  /\ writers = [i \in Children |-> {}]
  /\ toclose = [i \in Children |-> <<>>]
  /\ pipe = [i \in Children |-> <<>>]
  /\ sent = [i \in Children |-> <<>>]
  /\ ran = [i \in Children |-> <<>>]

-----------------------------------------------------------------------------

\* Mutant: the child does not close the write ends of its elder siblings.
ForkKeepingInherited ==
  /\ fpc = "fork"
  /\ cpc' = [cpc EXCEPT ![idx] = "setup"]
  /\ writers' = [i \in Children |-> IF i < idx THEN writers[i] \cup {idx}
                                    ELSE IF i = idx THEN {Father, idx}
                                    ELSE {}]
  /\ toclose' = [toclose EXCEPT ![idx] = <<idx>>]
  /\ IF idx < N THEN idx' = idx + 1 /\ UNCHANGED fpc
                ELSE idx' = 1 /\ fpc' = "menu"
  /\ UNCHANGED <<which, typed, sent, ran, pipe>>

\* One turn of Init's loop: pipe, fork, the father closes the read end.  The
\* child holds the new write end and a copy of each earlier one, and knows
\* them: its own and, in its copy of fd_del_tab, the father's.
Fork ==
  /\ fpc = "fork"
  /\ cpc' = [cpc EXCEPT ![idx] = "setup"]
  /\ writers' = [i \in Children |-> IF i < idx THEN writers[i] \cup {idx}
                                    ELSE IF i = idx THEN {Father, idx}
                                    ELSE {}]
  /\ toclose' = [toclose EXCEPT ![idx] = <<idx>> \o [j \in 1 .. idx - 1 |-> j]]
  /\ IF idx < N THEN idx' = idx + 1 /\ UNCHANGED fpc
                ELSE idx' = 1 /\ fpc' = "menu"
  /\ UNCHANGED <<which, typed, sent, ran, pipe>>

\* Mutant: the round robin counts from one to N + 1.
AllocateOffByOne(code) ==
  /\ fpc = "menu" /\ Len(sent[which]) < MaxTasks
  /\ pipe' = [pipe EXCEPT ![which] = Append(@, code)]
  /\ sent' = [sent EXCEPT ![which] = Append(@, code)]
  /\ which' = which + 1
  /\ UNCHANGED <<fpc, idx, typed, childVars, writers>>

\* Allocate_task_3, a task code: it is written to the next child's pipe.
Allocate(code) ==
  /\ fpc = "menu" /\ Len(sent[which]) < MaxTasks
  /\ pipe' = [pipe EXCEPT ![which] = Append(@, code)]
  /\ sent' = [sent EXCEPT ![which] = Append(@, code)]
  /\ which' = (which % N) + 1
  /\ UNCHANGED <<fpc, idx, typed, childVars, writers>>

\* Zero leaves the menu; so does what is not a number, for cin leaves 0 behind.
Quit(input) ==
  /\ fpc = "menu"
  /\ typed' = input
  /\ fpc' = "close"
  /\ UNCHANGED <<idx, which, sent, childVars, pipeVars>>

\* Recycle: close(pipes[i]._fd) ...
Close ==
  /\ fpc = "close"
  /\ writers' = [writers EXCEPT ![idx] = @ \ {Father}]
  /\ fpc' = "wait"
  /\ UNCHANGED <<idx, which, typed, sent, childVars, pipe>>

\* ... and waitpid(pipes[i]._propid).
WaitPid ==
  /\ fpc = "wait" /\ cpc[idx] = "exited"
  /\ cpc' = [cpc EXCEPT ![idx] = "reaped"]
  /\ IF idx < N THEN idx' = idx + 1 /\ fpc' = "close"
                ELSE fpc' = "done" /\ UNCHANGED idx
  /\ UNCHANGED <<which, typed, sent, toclose, ran, pipeVars>>

FatherStep == Fork \/ Close \/ WaitPid

-----------------------------------------------------------------------------

\* The child closes a write end that is not for it.
CloseInherited(i) ==
  /\ cpc[i] = "setup" /\ toclose[i] # <<>>
  /\ writers' = [writers EXCEPT ![Head(toclose[i])] = @ \ {i}]
  /\ toclose' = [toclose EXCEPT ![i] = Tail(@)]
  /\ UNCHANGED <<fatherVars, cpc, ran, pipe>>

\* The child calls Run_childpro.
StartRun(i) ==
  /\ cpc[i] = "setup" /\ toclose[i] = <<>>
  /\ cpc' = [cpc EXCEPT ![i] = "run"]
  /\ UNCHANGED <<fatherVars, toclose, ran, pipeVars>>

\* read returns a code and the task is run.
RunTask(i) ==
  /\ cpc[i] = "run" /\ pipe[i] # <<>>
  /\ pipe' = [pipe EXCEPT ![i] = Tail(@)]
  /\ ran' = [ran EXCEPT ![i] = Append(@, Head(pipe[i]))]
  /\ UNCHANGED <<fatherVars, cpc, toclose, writers>>

\* Mutant: the child takes an empty pipe for the end of its work.
ExitOnEmpty(i) ==
  /\ cpc[i] = "run" /\ pipe[i] = <<>>
  /\ cpc' = [cpc EXCEPT ![i] = "exited"]
  /\ writers' = [j \in Children |-> writers[j] \ {i}]
  /\ UNCHANGED <<fatherVars, toclose, ran, pipe>>

\* read returns 0: the pipe is empty and nobody holds a write end; exit closes
\* what the child still holds.
ExitOnEof(i) ==
  /\ cpc[i] = "run" /\ pipe[i] = <<>> /\ writers[i] = {}
  /\ cpc' = [cpc EXCEPT ![i] = "exited"]
  /\ writers' = [j \in Children |-> writers[j] \ {i}]
  /\ UNCHANGED <<fatherVars, toclose, ran, pipe>>

Child(i) == CloseInherited(i) \/ StartRun(i) \/ RunTask(i) \/ ExitOnEof(i)

-----------------------------------------------------------------------------

Next ==
  \/ FatherStep
  \/ \E code \in Code : Allocate(code)
  \/ \E input \in {"zero", "garbage"} : Quit(input)
  \/ \E i \in Children : Child(i)
  \/ fpc = "done" /\ UNCHANGED vars

Spec == Init /\ [][Next]_vars

\* Every process is scheduled; the user may stay at the menu for ever.
FairSpec ==
  /\ Spec
  /\ WF_vars(FatherStep)
  /\ \A i \in Children : WF_vars(Child(i))

-----------------------------------------------------------------------------
(***************************************************************************)
(* Properties.                                                             *)
(***************************************************************************)

TypeOK ==
  /\ fpc \in {"fork", "menu", "close", "wait", "done"}
  /\ idx \in Children /\ which \in Children
  /\ typed \in {"no", "zero", "garbage"}
  /\ cpc \in [Children -> {"none", "setup", "run", "exited", "reaped"}]
  /\ writers \in [Children -> SUBSET (Children \cup {Father})]
  /\ toclose \in [Children -> Seq(Children)]
  /\ pipe \in [Children -> Seq(Code)]
  /\ sent \in [Children -> Seq(Code)] /\ ran \in [Children -> Seq(Code)]

\* A write end held by anybody but the father is one a child in setup is going
\* to close: nobody keeps another child's pipe open for good.
NoForgottenWriteEnd ==
  \A i, j \in Children : j \in writers[i] =>
    cpc[j] = "setup" /\ \E k \in 1 .. Len(toclose[j]) : toclose[j][k] = i

\* The father has closed the write end of child i's pipe.
Closed(i) == fpc = "done" \/ (fpc \in {"close", "wait"} /\ i < idx)
                          \/ (fpc = "wait" /\ i = idx)

\* A child ends only when the father has closed its pipe, so that no task is
\* written to a pipe without a reader, and not before it has run every task
\* sent to it, in order.
NoTaskLost ==
  \A i \in Children : cpc[i] \in {"exited", "reaped"} => Closed(i) /\ ran[i] = sent[i]

\* Recycling ends: closing a pipe and waiting for its child, one child after
\* the other, never waits for a child that another keeps alive.
RecycleEnds == (fpc = "close") ~> (fpc = "done")

\* "0 leaves, any other wrong input is asked for again": the menu is only left
\* on a zero.
LeavesOnZero == fpc \in {"close", "wait", "done"} => typed = "zero"
=============================================================================
