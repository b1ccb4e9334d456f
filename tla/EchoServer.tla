----------------------------- MODULE EchoServer -----------------------------
(***************************************************************************)
(* Net/2.Net: a dictionary server whose main thread hands each accepted    *)
(* descriptor to a pool of workers, and the client that connects anew for  *)
(* each word and tries several times when nobody listens.  The server may  *)
(* die (a worker that cannot open the dictionary ends the whole program)   *)
(* and be started again.                                                   *)
(***************************************************************************)
EXTENDS Integers, Sequences, FiniteSets, SequencesExt

CONSTANTS
  Workers, Clients,
  Conns,       \* numbers for connections, used again when they are free
  Fds,         \* the descriptors the server may have open, natural numbers
  Words,       \* Words[c]: a sequence, what user c may type as his first line, his second...,
               \* unless he stops
  Empty,       \* the empty line
  Lines,       \* Dict.txt: <<word, meaning>>, or <<text>> without a colon
  Unvalid,     \* Find's answer for an unknown word
  Retries,     \* Retries[c]: the connection attempts of client c
  Backlog,     \* connections the kernel keeps for accept
  MaxCrashes   \* bound: how often the server dies

VARIABLES
  server,      \* [pc, crashes]: the process is "down", "bound" or "up"
  fdtab,       \* fdtab[fd]: the connection open as fd, as a set of at most one
  backlog,     \* connections that wait for accept
  tasks, worker, job,  \* the pool, see ThreadPool; a task is a descriptor
  word,        \* word[w]: what worker w has read and not yet answered
  conn,        \* conn[k]: [up, down, fin, hup], data and ends of a connection
  client       \* client[c]: [pc, cnt, conn, n, word, answer, refused]

poolVars == <<tasks, worker, job>>
vars == <<server, fdtab, backlog, poolVars, word, conn, client>>

Pool == INSTANCE ThreadPool WITH Task <- Fds, MaxTasks <- Cardinality(Fds)

Fresh == [up |-> <<>>, down |-> <<>>, fin |-> FALSE, hup |-> FALSE]

Init ==
  /\ server = [pc |-> "down", crashes |-> 0]
  /\ fdtab = [fd \in Fds |-> {}]
  /\ backlog = <<>>
  /\ Pool!Init
  /\ word = [w \in Workers |-> <<>>]
  /\ conn = [k \in Conns |-> Fresh]
  /\ client = [c \in Clients |-> [pc |-> "connect", cnt |-> Retries[c], conn |-> {}, n |-> 0,
                                  word |-> Empty, answer |-> <<>>, refused |-> 0]]

-----------------------------------------------------------------------------
(***************************************************************************)
(* Dictionary.hpp.                                                         *)
(***************************************************************************)

\* insert leaves the first meaning of a word in place.
InsertLine(dict, line) ==
  IF Len(line) # 2 \/ line[1] \in DOMAIN dict THEN dict
  ELSE [x \in DOMAIN dict \cup {line[1]} |-> IF x = line[1] THEN line[2] ELSE dict[x]]

\* The dictionary after n lines.
Loaded[n \in 0 .. Len(Lines)] == IF n = 0 THEN <<>> ELSE InsertLine(Loaded[n - 1], Lines[n])

LoadDict == Loaded[Len(Lines)]

Find(x) == IF x \in DOMAIN LoadDict THEN LoadDict[x] ELSE Unvalid

-----------------------------------------------------------------------------
(***************************************************************************)
(* The server.                                                             *)
(***************************************************************************)

\* TcpServer::Init: from here on the kernel accepts connections.  When a call
\* of it fails the program ends, and the server stays down.
Boot ==
  /\ server.pc = "down"
  /\ server' = [server EXCEPT !.pc = "bound"]
  /\ UNCHANGED <<fdtab, backlog, poolVars, word, conn, client>>

\* Daemon: the process goes on as a child, with the same descriptors.
Daemonize ==
  /\ server.pc = "bound"
  /\ server' = [server EXCEPT !.pc = "up"]
  /\ UNCHANGED <<fdtab, backlog, poolVars, word, conn, client>>

\* GetInstance()->Start(): only the main thread asks for the instance.
StartPool(w) ==
  /\ server.pc = "up"
  /\ Pool!Start(w)
  /\ UNCHANGED <<server, fdtab, backlog, word, conn, client>>

FreeFds == {fd \in Fds : fdtab[fd] = {}}

Push(fd) == Pool!Push(fd)

\* accept, which takes the lowest free descriptor, and Push; out of descriptors
\* accept fails and is called again.
Accept ==
  /\ server.pc = "up" /\ Pool!Started
  /\ backlog # <<>> /\ FreeFds # {}
  /\ LET fd == CHOOSE x \in FreeFds : \A y \in FreeFds : x <= y
     IN /\ fdtab' = [fdtab EXCEPT ![fd] = {Head(backlog)}]
        /\ Push(fd)
  /\ backlog' = Tail(backlog)
  /\ UNCHANGED <<server, word, conn, client>>

TakeTask(w) ==
  /\ Pool!Take(w)
  /\ UNCHANGED <<server, fdtab, backlog, word, conn, client>>

SpuriousWakeup(w) ==
  /\ Pool!SpuriousWakeup(w)
  /\ UNCHANGED <<server, fdtab, backlog, word, conn, client>>

\* One side closes connection k; when both have, the kernel forgets it.
CloseSide(link, side) ==
  IF side = "server" THEN IF link.fin THEN Fresh ELSE [link EXCEPT !.hup = TRUE]
                     ELSE IF link.hup THEN Fresh ELSE [link EXCEPT !.fin = TRUE]

\* The descriptor and the connection worker w serves.
Served(w) == {s \in job[w] \X Conns : s[2] \in fdtab[s[1]]}

\* Mutant: the descriptor is closed as soon as the word is read.
TaskReadClosing(w) ==
  /\ word[w] = <<>>
  /\ \E s \in Served(w) : LET fd == s[1] k == s[2] IN
       /\ conn[k].up # <<>>
       /\ word' = [word EXCEPT ![w] = <<Head(conn[k].up)>>]
       /\ conn' = [conn EXCEPT ![k].up = Tail(@)]
       /\ fdtab' = [fdtab EXCEPT ![fd] = {}]
  /\ UNCHANGED <<server, backlog, poolVars, client>>

\* Task::Run up to Find: read blocks until there is a word.
TaskRead(w) ==
  /\ word[w] = <<>>
  /\ \E s \in Served(w) :
       /\ conn[s[2]].up # <<>>
       /\ word' = [word EXCEPT ![w] = <<Head(conn[s[2]].up)>>]
       /\ conn' = [conn EXCEPT ![s[2]].up = Tail(@)]
  /\ UNCHANGED <<server, fdtab, backlog, poolVars, client>>

\* Mutant: the end of the stream is logged, and read is called again.
TaskEofSpinning(w) ==
  /\ word[w] = <<>>
  /\ \E s \in Served(w) : conn[s[2]].up = <<>> /\ conn[s[2]].fin
  /\ UNCHANGED vars

\* read returns 0: the client has gone without a word; close.
TaskEof(w) ==
  /\ word[w] = <<>>
  /\ \E s \in Served(w) :
       /\ conn[s[2]].up = <<>> /\ conn[s[2]].fin
       /\ conn' = [conn EXCEPT ![s[2]] = CloseSide(@, "server")]
       /\ fdtab' = [fdtab EXCEPT ![s[1]] = {}]
  /\ Pool!Finish(w)
  /\ UNCHANGED <<server, backlog, word, client>>

\* write, which fails when the client has gone (SIGPIPE is ignored), and close.
TaskWrite(w) ==
  /\ word[w] # <<>>
  /\ word' = [word EXCEPT ![w] = <<>>]
  /\ conn' = [k \in Conns |->
       IF \A s \in Served(w) : s[2] # k THEN conn[k]
       ELSE CloseSide([conn[k] EXCEPT !.down = Append(@, Find(word[w][1]))], "server")]
  /\ fdtab' = [fd \in Fds |-> IF fd \in job[w] THEN {} ELSE fdtab[fd]]
  /\ Pool!Finish(w)
  /\ UNCHANGED <<server, backlog, client>>

\* The process ends, by Dictionary::Init's exit(1) or from outside: the kernel
\* closes all it had open.
Crash ==
  /\ server.pc # "down" /\ server.crashes < MaxCrashes
  /\ server' = [pc |-> "down", crashes |-> server.crashes + 1]
  /\ conn' = [k \in Conns |->
       IF Contains(backlog, k) \/ \E fd \in Fds : k \in fdtab[fd]
       THEN CloseSide(conn[k], "server") ELSE conn[k]]
  /\ fdtab' = [fd \in Fds |-> {}]
  /\ backlog' = <<>> /\ tasks' = <<>>
  /\ worker' = [w \in Workers |-> "new"]
  /\ job' = [w \in Workers |-> {}]
  /\ word' = [w \in Workers |-> <<>>]
  /\ UNCHANGED client

-----------------------------------------------------------------------------
(***************************************************************************)
(* Client.cc.                                                              *)
(***************************************************************************)

FreeConns == {k \in Conns : /\ ~Contains(backlog, k)
                            /\ \A fd \in Fds : k \notin fdtab[fd]
                            /\ \A c \in Clients : k \notin client[c].conn}

\* connect succeeds as soon as the server listens and its backlog has room.
ConnectOk(c) ==
  /\ client[c].pc = "connect" /\ server.pc # "down" /\ Len(backlog) < Backlog
  /\ FreeConns # {}
  /\ LET k == CHOOSE x \in FreeConns : \A y \in FreeConns : x <= y
     IN /\ backlog' = Append(backlog, k)
        /\ client' = [client EXCEPT ![c].pc = "typing", ![c].conn = {k}, ![c].refused = 0,
                                    ![c].word = Empty, ![c].answer = <<>>]
  /\ UNCHANGED <<server, fdtab, poolVars, word, conn>>

\* Mutant: the loop ends below zero.
ConnectFailOnceMore(c) ==
  /\ client[c].pc = "connect" /\ server.pc = "down"
  /\ client' = [client EXCEPT ![c].cnt = @ - 1, ![c].refused = @ + 1,
                              ![c].pc = IF client[c].cnt = 0 THEN "offline" ELSE "connect"]
  /\ UNCHANGED <<server, fdtab, backlog, poolVars, word, conn>>

\* Nobody listens: one attempt less, and after the last the user is offline.
ConnectFail(c) ==
  /\ client[c].pc = "connect" /\ server.pc = "down"
  /\ client' = [client EXCEPT ![c].cnt = @ - 1, ![c].refused = @ + 1,
                              ![c].pc = IF client[c].cnt = 1 THEN "offline" ELSE "connect"]
  /\ UNCHANGED <<server, fdtab, backlog, poolVars, word, conn>>

\* Mutant: the attempts are counted over all services.
NextServiceKeepingCount(c) ==
  [client[c] EXCEPT !.pc = "connect", !.conn = {}]

\* The top of the client's outer loop, after a service.
NextService(c) ==
  [client[c] EXCEPT !.pc = "connect", !.conn = {}, !.cnt = Retries[c]]

Hangup(c) == [k \in Conns |-> IF k \in client[c].conn THEN CloseSide(conn[k], "client")
                              ELSE conn[k]]

\* A line is written; nothing is sent of an empty one, and the service ends.
Type(c) ==
  /\ client[c].pc = "typing" /\ client[c].n < Len(Words[c])
  /\ \E x \in Words[c][client[c].n + 1] :
       \/ /\ x = Empty
          /\ client' = [client EXCEPT ![c] = [NextService(c) EXCEPT !.n = @ + 1]]
          /\ conn' = Hangup(c)
       \/ /\ x # Empty
          /\ client' = [client EXCEPT ![c].pc = "reading", ![c].n = @ + 1, ![c].word = x]
          /\ conn' = [k \in Conns |-> IF k \in client[c].conn
                                      THEN [conn[k] EXCEPT !.up = Append(@, x)] ELSE conn[k]]
  /\ UNCHANGED <<server, fdtab, backlog, poolVars, word>>

\* read returns the answer, 0 or an error; close, and on to the next service.
ReadReply(c) ==
  /\ client[c].pc = "reading"
  /\ \E k \in client[c].conn :
       /\ conn[k].down # <<>> \/ conn[k].hup
       /\ client' = [client EXCEPT ![c] = [NextService(c) EXCEPT !.answer = conn[k].down]]
  /\ conn' = Hangup(c)
  /\ UNCHANGED <<server, fdtab, backlog, poolVars, word>>

\* The user interrupts the program at its prompt, and all it knew is gone.
Leave(c) ==
  /\ client[c].pc = "typing"
  /\ client' = [client EXCEPT ![c] = [NextService(c) EXCEPT !.pc = "left", !.n = 0]]
  /\ conn' = Hangup(c)
  /\ UNCHANGED <<server, fdtab, backlog, poolVars, word>>

Worker(w) == StartPool(w) \/ TakeTask(w) \/ TaskRead(w) \/ TaskEof(w) \/ TaskWrite(w)

Next ==
  \/ Boot \/ Daemonize \/ Accept \/ Crash
  \/ \E w \in Workers : Worker(w) \/ SpuriousWakeup(w)
  \/ \E c \in Clients : \/ ConnectOk(c) \/ ConnectFail(c) \/ Type(c)
                        \/ ReadReply(c) \/ Leave(c)

\* The server's threads and the clients are scheduled; users may never type, and
\* nobody need start the server again.
Fairness ==
  /\ WF_vars(Daemonize) /\ WF_vars(Accept)
  /\ \A w \in Workers : WF_vars(Worker(w))
  /\ \A c \in Clients : WF_vars(ReadReply(c))

Spec == Init /\ [][Next]_vars /\ Fairness

-----------------------------------------------------------------------------
(***************************************************************************)
(* Properties.                                                             *)
(***************************************************************************)

TypeOK ==
  /\ server \in [pc : {"down", "bound", "up"}, crashes : 0 .. MaxCrashes]
  /\ Pool!TypeOK
  /\ fdtab \in [Fds -> SUBSET Conns] /\ \A fd \in Fds : Cardinality(fdtab[fd]) <= 1
  /\ backlog \in Seq(Conns)
  /\ \A c \in Clients :
       /\ client[c].pc \in {"connect", "typing", "reading", "offline", "left"}
       /\ client[c].cnt \in 0 .. Retries[c]

PoolMatchesTasks == Pool!WorkersMatchTasks

\* The meaning of x in the first line that has one.
Meaning(x) ==
  LET at == {i \in 1 .. Len(Lines) : Len(Lines[i]) = 2 /\ Lines[i][1] = x}
  IN IF at = {} THEN Unvalid ELSE Lines[CHOOSE i \in at : \A j \in at : i <= j][2]

\* Descriptors are numbers, closed by workers and handed out again by accept
\* while other workers are at work: all the same a client that gets an answer
\* gets the one to its own word, no descriptor is queued or served twice, and
\* none is left open that nobody will serve.
NoCrossTalk ==
  /\ \A c \in Clients : client[c].pc = "connect" /\ client[c].answer # <<>> =>
       client[c].answer = <<Meaning(client[c].word)>>
  /\ \A fd \in Fds : fdtab[fd] # {} <=>
       Cardinality({i \in 1 .. Len(tasks) : tasks[i] = fd} \cup {w \in Workers : fd \in job[w]}) = 1

\* A user goes offline only when all attempts of one service failed in a row:
\* failures of earlier services, or before a success, do not count.
OfflineOnlyAfterRetries ==
  \A c \in Clients : client[c].pc = "offline" => client[c].refused >= Retries[c]

\* Worker w blocks in read on a client that has not typed anything.
HeldBySilence(w) ==
  \E s \in Served(w) : \E c \in Clients : s[2] \in client[c].conn /\ client[c].pc = "typing"

\* A client that has sent its word gets an answer or the end of the connection,
\* unless every worker is held by a client that is silent.
OnlySilenceStarves ==
  \A c \in Clients : (client[c].pc = "reading") ~>
    (client[c].pc # "reading" \/ \A w \in Workers : HeldBySilence(w))
=============================================================================
