---------------------------- MODULE RequestReply ----------------------------
(***************************************************************************)
(* What a calculator client may rely on: its questions are answered in     *)
(* order, each once and correctly, and a conversation the server has begun *)
(* to answer is answered to its end.  A server that cannot take a client   *)
(* on may turn it away, before its first answer.                           *)
(***************************************************************************)
EXTENDS Integers, Sequences

CONSTANTS Clients, Question, Answer(_)

VARIABLES
  asked,       \* asked[c]: the questions of client c
  replied,     \* replied[c]: the answers it has been sent
  over         \* over[c]: the server is done with c

vars == <<asked, replied, over>>

Init ==
  /\ asked = [c \in Clients |-> <<>>]
  /\ replied = [c \in Clients |-> <<>>]
  /\ over = [c \in Clients |-> FALSE]

Ask(c) ==
  /\ \E q \in Question : asked' = [asked EXCEPT ![c] = Append(@, q)]
  /\ UNCHANGED <<replied, over>>

Reply(c) ==
  /\ ~over[c] /\ Len(replied[c]) < Len(asked[c])
  /\ replied' = [replied EXCEPT ![c] = Append(@, Answer(asked[c][Len(@) + 1]))]
  /\ UNCHANGED <<asked, over>>

End(c) ==
  /\ Len(replied[c]) \in {0, Len(asked[c])}
  /\ over' = [over EXCEPT ![c] = TRUE]
  /\ UNCHANGED <<asked, replied>>

Next == \E c \in Clients : Ask(c) \/ Reply(c) \/ End(c)

Spec == Init /\ [][Next]_vars /\ \A c \in Clients : WF_vars(Reply(c))
=============================================================================
