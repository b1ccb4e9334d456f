------------------------------ MODULE TaskFifo ------------------------------
(***************************************************************************)
(* What a producer may rely on when it hands tasks to consumers through    *)
(* BlockQueue or RingQueue: a first-in first-out buffer of at most Cap     *)
(* tasks, in which putting and taking are atomic, nothing is lost, nothing *)
(* is handed out twice and nobody waits for ever on a buffer that could    *)
(* serve him.                                                              *)
(***************************************************************************)
EXTENDS Integers, Sequences

CONSTANTS
  Consumers,   \* the threads that take tasks
  Task,        \* the tasks
  NoTask,      \* what a consumer holds before its first one
  Cap          \* how many tasks may wait

VARIABLES
  buf,         \* the waiting tasks, oldest first
  taken        \* taken[c]: the task consumer c took last

vars == <<buf, taken>>

Init ==
  /\ buf = <<>>
  /\ taken = [c \in Consumers |-> NoTask]

\* Some producer hands over a task.
Put ==
  /\ Len(buf) < Cap
  /\ \E t \in Task : buf' = Append(buf, t)
  /\ UNCHANGED taken

\* Consumer c takes the oldest task.
Get(c) ==
  /\ buf # <<>>
  /\ taken' = [taken EXCEPT ![c] = Head(buf)]
  /\ buf' = Tail(buf)

Next == Put \/ \E c \in Consumers : Get(c)

Spec == Init /\ [][Next]_vars

\* Somebody takes what waits, and somebody puts while there is room.
FairSpec == Spec /\ WF_buf(Put) /\ WF_buf(\E c \in Consumers : Get(c))
=============================================================================
