---------------------------- MODULE CalcService ----------------------------
(***************************************************************************)
(* Net/3.Net: a calculator server that forks a child per connection, and   *)
(* its clients.  TCP is a stream: a read returns any non-empty prefix of   *)
(* what has arrived, and Decode finds the packets in it again.             *)
(*                                                                         *)
(* A symbol stands for a run of bytes.  A packet is a header symbol, which *)
(* says how many symbols of content follow, and the content.               *)
(***************************************************************************)
EXTENDS Integers, Sequences, SequencesExt

CONSTANTS
  Clients,
  Asks,        \* Asks[c]: the requests client c makes, a sequence
  Bursts,      \* the clients that send all their requests before they read
  Backlog,     \* connections the kernel keeps for accept
  Chunk        \* bound: the symbols one read of the server returns

VARIABLES
  parent,      \* [pc, conn]: the server process and the connection in sockfd
  pending,     \* the connections that wait for accept
  child,       \* child[c]: [pc, in, served] of the process forked for client c
  holders,     \* holders[c]: the server processes with c's connection open
  link,        \* link[c]: [up, down, fin], what is in flight and c's end of it
  client       \* client[c]: [pc, asked, got, in]

vars == <<parent, pending, child, holders, link, client>>

Init ==
  /\ parent = [pc |-> "init", conn |-> {}]
  /\ pending = <<>>
  /\ child = [c \in Clients |-> [pc |-> "none", in |-> <<>>, served |-> <<>>]]
  /\ holders = [c \in Clients |-> {}]
  /\ link = [c \in Clients |-> [up |-> <<>>, down |-> <<>>, fin |-> FALSE]]
  /\ client = [c \in Clients |-> [pc |-> "connect", asked |-> 0, got |-> <<>>, in |-> <<>>]]

-----------------------------------------------------------------------------
(***************************************************************************)
(* Protocol.hpp and CalServer.hpp.                                         *)
(***************************************************************************)

Digits(n) == IF n \in -9 .. 9 THEN 1 ELSE 2

Body(v, n) == [i \in 1 .. n |-> [len |-> 0, val |-> v]]

\* The text of a request, or of a response, is as long as its numbers.
SerializeRequest(q) == Body(q, Digits(q.x))
SerializeResponse(a) == Body(a, Digits(a.result))
Deserialize(content) == content[1].val

Encode(content) == <<[len |-> Len(content), val |-> <<>>]>> \o content

Nothing == [content |-> <<>>, rest |-> <<>>]

\* Mutant: the packet is not erased from the buffer.
DecodeKeeping(mes) ==
  IF mes = <<>> \/ Len(mes) < mes[1].len + 1 THEN Nothing
  ELSE [content |-> SubSeq(mes, 2, mes[1].len + 1), rest |-> mes]

\* The first packet of mes, if the header and all it promises are there.
Decode(mes) ==
  IF mes = <<>> THEN Nothing
  ELSE LET total == mes[1].len + 1
       IN IF Len(mes) < total THEN Nothing
          ELSE [content |-> SubSeq(mes, 2, total),
                rest    |-> SubSeq(mes, total + 1, Len(mes))]

\* The operands are natural numbers, as the client draws them.
CalculatorHelper(q) ==
  LET ok(r) == [result |-> r, code |-> 0]
      error(e) == [result |-> 0, code |-> e]
  IN CASE q.op = "+" -> ok(q.x + q.y)
       [] q.op = "-" -> ok(q.x - q.y)
       [] q.op = "*" -> ok(q.x * q.y)
       [] q.op = "/" -> IF q.y = 0 THEN error(1) ELSE ok(q.x \div q.y)
       [] q.op = "%" -> IF q.y = 0 THEN error(2) ELSE ok(q.x % q.y)
       [] OTHER -> error(3)

-----------------------------------------------------------------------------
(***************************************************************************)
(* The server process.                                                     *)
(***************************************************************************)

\* InitServer: socket, bind and listen, each of which ends the program when
\* it fails.
Start ==
  /\ parent.pc = "init"
  /\ \E pc \in {"accept", "exited"} : parent' = [parent EXCEPT !.pc = pc]
  /\ UNCHANGED <<pending, child, holders, link, client>>

Accept ==
  /\ parent.pc = "accept" /\ pending # <<>>
  /\ parent' = [pc |-> "fork", conn |-> {Head(pending)}]
  /\ holders' = [holders EXCEPT ![Head(pending)] = {"parent"}]
  /\ pending' = Tail(pending)
  /\ UNCHANGED <<child, link, client>>

\* fork copies every descriptor the parent has open; when it fails, the code
\* takes the parent's path all the same.
Fork ==
  /\ parent.pc = "fork"
  /\ parent' = [parent EXCEPT !.pc = "close"]
  /\ \E c \in parent.conn :
       \/ /\ child' = [child EXCEPT ![c].pc = "read"]
          /\ holders' = [d \in Clients |-> IF "parent" \in holders[d]
                                           THEN holders[d] \cup {c} ELSE holders[d]]
       \/ child' = [child EXCEPT ![c].pc = "refused"] /\ UNCHANGED holders
  /\ UNCHANGED <<pending, link, client>>

\* Mutant: the parent keeps the connection it has handed to a child.
CloseConnNever ==
  /\ parent.pc = "close"
  /\ parent' = [pc |-> "accept", conn |-> {}]
  /\ UNCHANGED <<pending, child, holders, link, client>>

CloseConn ==
  /\ parent.pc = "close"
  /\ holders' = [c \in Clients |-> IF c \in parent.conn THEN holders[c] \ {"parent"}
                                   ELSE holders[c]]
  /\ parent' = [pc |-> "accept", conn |-> {}]
  /\ UNCHANGED <<pending, child, link, client>>

Parent == Start \/ Accept \/ Fork \/ CloseConn

ChildRead(c) ==
  /\ child[c].pc = "read"
  /\ \E k \in 1 .. Chunk :
       /\ k <= Len(link[c].up)
       /\ child' = [child EXCEPT ![c].pc = "decode", ![c].in = @ \o SubSeq(link[c].up, 1, k)]
       /\ link' = [link EXCEPT ![c].up = SubSeq(@, k + 1, Len(@))]
  /\ UNCHANGED <<parent, pending, holders, client>>

\* Mutant: one packet is decoded per read, as in the Reactor.
ChildDecodeOne(c) ==
  /\ child[c].pc = "decode"
  /\ LET d == Decode(child[c].in)
         a == CalculatorHelper(Deserialize(d.content))
     IN IF d = Nothing
        THEN child' = [child EXCEPT ![c].pc = "read"] /\ UNCHANGED link
        ELSE /\ child' = [child EXCEPT ![c].in = d.rest, ![c].pc = "read",
                                       ![c].served = Append(@, a)]
             /\ link' = [link EXCEPT ![c].down = @ \o Encode(SerializeResponse(a))]
  /\ UNCHANGED <<parent, pending, holders, client>>

\* callback_ until it returns nothing: every complete packet is answered before
\* the next read.  To a client that is gone the write fails; SIGPIPE is ignored.
ChildDecode(c) ==
  /\ child[c].pc = "decode"
  /\ LET d == Decode(child[c].in)
         a == CalculatorHelper(Deserialize(d.content))
     IN IF d = Nothing
        THEN child' = [child EXCEPT ![c].pc = "read"] /\ UNCHANGED link
        ELSE /\ child' = [child EXCEPT ![c].in = d.rest, ![c].served = Append(@, a)]
             /\ IF client[c].pc \in {"done", "aborted"} THEN UNCHANGED link
                ELSE link' = [link EXCEPT ![c].down = @ \o Encode(SerializeResponse(a))]
  /\ UNCHANGED <<parent, pending, holders, client>>

\* read returns 0, or an error: close and exit, which closes what was inherited.
ChildExit(c) ==
  /\ child[c].pc = "read" /\ link[c].up = <<>> /\ link[c].fin
  /\ child' = [child EXCEPT ![c].pc = "exited"]
  /\ holders' = [d \in Clients |-> holders[d] \ {c}]
  /\ UNCHANGED <<parent, pending, link, client>>

Child(c) == ChildRead(c) \/ ChildDecode(c) \/ ChildExit(c)

-----------------------------------------------------------------------------
(***************************************************************************)
(* The clients.                                                            *)
(***************************************************************************)

\* The server has no descriptor of c's connection left.
HungUp(c) == holders[c] = {} /\ ~Contains(pending, c)

\* connect fails when nobody listens, and waits while the backlog is full.
Connect(c) ==
  /\ client[c].pc = "connect"
  /\ IF parent.pc \in {"init", "exited"}
     THEN client' = [client EXCEPT ![c].pc = "done"] /\ UNCHANGED pending
     ELSE /\ Len(pending) < Backlog
          /\ client' = [client EXCEPT ![c].pc = "send"]
          /\ pending' = Append(pending, c)
  /\ UNCHANGED <<parent, child, holders, link>>

\* One turn of the client's loop up to write, or its end after the last one.  A
\* bursting client writes them all and shuts its sending side.
Send(c) ==
  /\ client[c].pc = "send"
  /\ IF client[c].asked < Len(Asks[c])
     THEN /\ client' = [client EXCEPT ![c].asked = @ + 1,
                                      ![c].pc = IF c \in Bursts THEN "send" ELSE "read"]
          /\ link' = [link EXCEPT ![c].up =
                        @ \o Encode(SerializeRequest(Asks[c][client[c].asked + 1]))]
     ELSE /\ client' = [client EXCEPT ![c].pc = IF c \in Bursts THEN "read" ELSE "done"]
          /\ link' = [link EXCEPT ![c].fin = TRUE]
  /\ UNCHANGED <<parent, pending, child, holders>>

\* One read, which must hold one whole response: otherwise the assertion ends
\* the client.
Receive(c) ==
  /\ client[c].pc = "read" /\ c \notin Bursts
  /\ \E k \in 1 .. Len(link[c].down) :
       LET d == Decode(client[c].in \o SubSeq(link[c].down, 1, k))
       IN IF d = Nothing
          THEN /\ client' = [client EXCEPT ![c].pc = "aborted"]
               /\ link' = [link EXCEPT ![c].down = <<>>, ![c].fin = TRUE]
          ELSE /\ client' = [client EXCEPT ![c].pc = "send", ![c].in = d.rest,
                                           ![c].got = Append(@, Deserialize(d.content))]
               /\ link' = [link EXCEPT ![c].down = SubSeq(@, k + 1, Len(@))]
  /\ UNCHANGED <<parent, pending, child, holders>>

\* A client that handles several responses, as the comments in the client ask
\* of one that sends several requests at a time.
ReceiveBurst(c) ==
  /\ client[c].pc = "read" /\ c \in Bursts
  /\ LET d == Decode(link[c].down)
     IN /\ d # Nothing
        /\ client' = [client EXCEPT ![c].got = Append(@, Deserialize(d.content))]
        /\ link' = [link EXCEPT ![c].down = d.rest]
  /\ UNCHANGED <<parent, pending, child, holders>>

\* read returns 0, or the reset of a connection the server has closed.
ReceiveEnd(c) ==
  /\ client[c].pc = "read" /\ link[c].down = <<>> /\ HungUp(c)
  /\ client' = [client EXCEPT ![c].pc = "done"]
  /\ link' = [link EXCEPT ![c].fin = TRUE]
  /\ UNCHANGED <<parent, pending, child, holders>>

Client(c) == Connect(c) \/ Send(c) \/ Receive(c) \/ ReceiveBurst(c) \/ ReceiveEnd(c)

Next == Parent \/ \E c \in Clients : Child(c) \/ Client(c)

\* Every process is scheduled.
Fairness ==
  /\ WF_vars(Parent)
  /\ \A c \in Clients : WF_vars(Child(c)) /\ WF_vars(Client(c))

Spec == Init /\ [][Next]_vars /\ Fairness

-----------------------------------------------------------------------------
(***************************************************************************)
(* Properties.                                                             *)
(***************************************************************************)

TypeOK ==
  /\ parent \in [pc : {"init", "accept", "fork", "close", "exited"}, conn : SUBSET Clients]
  /\ pending \in Seq(Clients)
  /\ \A c \in Clients :
       /\ child[c].pc \in {"none", "refused", "read", "decode", "exited"}
       /\ holders[c] \subseteq Clients \cup {"parent"}
       /\ client[c].pc \in {"connect", "send", "read", "done", "aborted"}
       /\ client[c].asked \in 0 .. Len(Asks[c])

\* What an answer must be, said without the program's switch.
Correct(q, a) ==
  \/ a.code = 0 /\ q.op = "+" /\ a.result - q.y = q.x
  \/ a.code = 0 /\ q.op = "-" /\ a.result + q.y = q.x
  \/ a.code = 0 /\ q.op = "*" /\ a.result = q.x * q.y
  \/ a.code = 0 /\ q.op = "/" /\ q.y # 0 /\ q.x - a.result * q.y \in 0 .. q.y - 1
  \/ a.code = 0 /\ q.op = "%" /\ a.result < q.y /\ \E n \in 0 .. q.x : q.x = n * q.y + a.result
  \/ a.code = 1 /\ q.op = "/" /\ q.y = 0
  \/ a.code = 2 /\ q.op = "%" /\ q.y = 0
  \/ a.code = 3 /\ q.op \notin {"+", "-", "*", "/", "%"}

\* The i-th answer a client takes out of the stream answers its i-th question,
\* however the stream was cut; and a client that takes one read for one answer
\* is never a packet behind: when it asks again nothing of the last answer is
\* left in its buffer or on the way.
AnswersMatchQuestions ==
  \A c \in Clients :
    /\ \A i \in 1 .. Len(client[c].got) : Correct(Asks[c][i], client[c].got[i])
    /\ c \notin Bursts /\ client[c].pc = "send" =>
         /\ Len(client[c].got) = client[c].asked
         /\ client[c].in = <<>> /\ link[c].down = <<>>

Abstract ==
  INSTANCE RequestReply WITH
    Question <- UNION {ToSet(Asks[c]) : c \in Clients},
    Answer   <- CalculatorHelper,
    asked    <- [c \in Clients |-> SubSeq(Asks[c], 1, client[c].asked)],
    replied  <- [c \in Clients |-> child[c].served],
    over     <- [c \in Clients |-> child[c].pc \in {"refused", "exited"}]

\* The children answer every request, in order and once, however many packets a
\* read returns, and exit only when nothing is unanswered.
IsRequestReply == Abstract!Spec

\* No client waits for ever: each gets its answers or the end of the
\* connection, which it only sees when every process has closed it.
ClientsEnd == <>(\A c \in Clients : client[c].pc \in {"done", "aborted"})
=============================================================================
