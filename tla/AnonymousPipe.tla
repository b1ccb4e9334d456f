--------------------------- MODULE AnonymousPipe ----------------------------
(***************************************************************************)
(* pro_interact/1.noname_pipe: a child that writes into a pipe without end *)
(* and a father who reads a few times, closes his end and waits for the    *)
(* child.  What ends either depends on who still holds an end of the pipe. *)
(***************************************************************************)
EXTENDS Integers

CONSTANTS
  Capacity,     \* the messages that fit into the pipe
  Reads,        \* cnt of Read
  Chunk         \* the messages that fit into the buffer of Read

VARIABLES
  pipe,         \* the messages in the pipe
  readers,      \* the processes that hold its read end
  writers,      \* the processes that hold its write end
  father,       \* [pc, cnt]: where the father is, and the reads he has left
  child         \* where the child is

vars == <<pipe, readers, writers, father, child>>

\* pipe has succeeded.
Init ==
  /\ pipe = 0 /\ readers = {"father"} /\ writers = {"father"}
  /\ father = [pc |-> "fork", cnt |-> Reads]
  /\ child = "none"

FatherAt(from, to) == father.pc = from /\ father' = [father EXCEPT !.pc = to]

\* Without a child the program ends.
Fork ==
  /\ UNCHANGED pipe
  /\ \/ /\ FatherAt("fork", "close") /\ child' = "close"
        /\ readers' = {"father", "child"} /\ writers' = {"father", "child"}
     \/ /\ FatherAt("fork", "exited") /\ readers' = {} /\ writers' = {} /\ UNCHANGED child

-----------------------------------------------------------------------------
(***************************************************************************)
(* The child.                                                              *)
(***************************************************************************)

\* Mutant: the child keeps the end it does not use.
ChildCloseNothing ==
  /\ child = "close" /\ child' = "write"
  /\ UNCHANGED <<pipe, readers, writers, father>>

ChildClose ==
  /\ child = "close" /\ child' = "write"
  /\ readers' = readers \ {"child"}
  /\ UNCHANGED <<pipe, writers, father>>

\* A process that has ended holds nothing.
ChildEnd ==
  /\ child' = "zombie"
  /\ readers' = readers \ {"child"} /\ writers' = writers \ {"child"}
  /\ UNCHANGED <<pipe, father>>

\* write waits for room; without a reader it raises SIGPIPE.
Write ==
  /\ child = "write"
  /\ IF readers = {} THEN ChildEnd
     ELSE pipe < Capacity /\ pipe' = pipe + 1 /\ UNCHANGED <<readers, writers, father, child>>

\* A signal from outside.
Kill == child \in {"close", "write"} /\ ChildEnd

-----------------------------------------------------------------------------
(***************************************************************************)
(* The father.                                                             *)
(***************************************************************************)

FatherClose ==
  /\ FatherAt("close", "read")
  /\ writers' = writers \ {"father"}
  /\ UNCHANGED <<pipe, readers, child>>

\* read returns what there is, as far as it fits, or 0 when nobody can write any
\* more; else it waits.
Read ==
  /\ father.pc = "read" /\ father.cnt > 0
  /\ \/ /\ pipe > 0
        /\ father' = [father EXCEPT !.cnt = @ - 1]
        /\ pipe' = IF pipe > Chunk THEN pipe - Chunk ELSE 0
     \/ pipe = 0 /\ writers = {} /\ FatherAt("read", "stop") /\ UNCHANGED pipe
  /\ UNCHANGED <<readers, writers, child>>

\* After its last turn, or the break.
FatherCloseRead ==
  /\ \/ father.cnt = 0 /\ FatherAt("read", "wait")
     \/ FatherAt("stop", "wait")
  /\ readers' = readers \ {"father"}
  /\ UNCHANGED <<pipe, writers, child>>

\* waitpid.
Wait ==
  /\ FatherAt("wait", "exited")
  /\ child = "zombie" /\ child' = "reaped"
  /\ UNCHANGED <<pipe, readers, writers>>

Father == Fork \/ FatherClose \/ Read \/ FatherCloseRead \/ Wait
Child == ChildClose \/ Write

Next == Father \/ Child \/ Kill

\* Both processes are scheduled; nobody need send a signal.
Fairness == WF_vars(Father) /\ WF_vars(Child)

Spec == Init /\ [][Next]_vars /\ Fairness

-----------------------------------------------------------------------------
TypeOK ==
  /\ pipe \in 0 .. Capacity
  /\ readers \subseteq {"father", "child"} /\ writers \subseteq {"father", "child"}
  /\ father \in [pc : {"fork", "close", "read", "stop", "wait", "exited"}, cnt : 0 .. Reads]
  /\ child \in {"none", "close", "write", "zombie", "reaped"}

\* The father ends and leaves no child behind, although the child's loop has no
\* end and the pipe may be full: the child meets SIGPIPE, because neither has
\* kept a read end, or the father the end of the file, because he has not kept
\* a write end.
FatherEnds == <>(father.pc = "exited" /\ child \in {"none", "reaped"})
=============================================================================
