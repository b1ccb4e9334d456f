------------------------------- MODULE Servers -------------------------------
(***************************************************************************)
(* The servers of Net that hand each connection to a process or a thread,  *)
(* and the thread pool.  They are separate programs that share nothing:    *)
(* the first state chooses the program that this behaviour is about, and   *)
(* the others stay as they are.                                            *)
(***************************************************************************)
EXTENDS Integers, Sequences, FiniteSets

CONSTANTS
  Backlog,                                                     \* of every listener
  Asks, Bursts, Chunk,                                         \* CalcService: Asks[c] for each client c
  Workers, Clients, Conns, Fds, Words, Empty, Lines, Unvalid,
  Retries, MaxCrashes,                                         \* EchoServer
  PoolWorkers, Task, MaxTasks,                                 \* ThreadPool
  Requests, Cells, Url, Suffix, Files, Directories, Stale,
  MaxLeaves                                                    \* HttpServer, with Fds; Requests[c] for each client c

\* Clients ask with the numbers rand gives them.
ASSUME CalcAssumption ==
  /\ \A c \in DOMAIN Asks : Asks[c] \in Seq([x : Nat, y : Nat, op : STRING])
  /\ Chunk \in Nat

\* A process has as many threads as it started.
ASSUME PoolAssumption == IsFiniteSet(Workers) /\ IsFiniteSet(PoolWorkers)

\* Descriptors and connections are numbers.  A client makes one attempt at least.
ASSUME EchoAssumption ==
  /\ Conns \subseteq Nat /\ Lines \in Seq(Seq(STRING))
  /\ Words \in [Clients -> Seq(SUBSET STRING)]
  /\ Retries \in [Clients -> Nat \ {0}] /\ MaxCrashes \in Nat

\* Descriptors are numbers, and None is none of them.  The heap has room for a
\* cell per connection.  A segment holds at least the unended line.
ASSUME HttpAssumption ==
  /\ Fds \subseteq Nat \ {0} /\ IsFiniteSet(Fds) /\ IsFiniteSet(Cells)
  /\ Cardinality(Fds) <= Cardinality(Cells)
  /\ \A c \in DOMAIN Requests : Requests[c] \subseteq Seq(STRING) \ {<<>>}
  /\ Stale \subseteq Seq(STRING) /\ Directories \subseteq STRING

VARIABLES
  program,                                                     \* the one that runs
  parent, pending, child, holders, link, asker,                \* CalcService
  server, fdtab, listen, tasks, worker, job, word, conn, user, \* EchoServer
  queue, thread, duty,                                         \* ThreadPool
  alive, backlog, open, heap, handler, peer                    \* HttpServer

calcVars == <<parent, pending, child, holders, link, asker>>
echoVars == <<server, fdtab, listen, tasks, worker, job, word, conn, user>>
poolVars == <<queue, thread, duty>>
httpVars == <<alive, backlog, open, heap, handler, peer>>
vars == <<program, calcVars, echoVars, poolVars, httpVars>>

-----------------------------------------------------------------------------
CalcClients == DOMAIN Asks
Calc == INSTANCE CalcService WITH Clients <- CalcClients, client <- asker

Echo == INSTANCE EchoServer WITH backlog <- listen, client <- user

Pool == INSTANCE ThreadPool WITH Workers <- PoolWorkers, tasks <- queue, worker <- thread, job <- duty

HttpClients == DOMAIN Requests
Http == INSTANCE HttpServer WITH Clients <- HttpClients, thread <- handler

-----------------------------------------------------------------------------
Init ==
  /\ program \in {"calc", "echo", "pool", "http"}
  /\ Calc!Init /\ Echo!Init /\ Pool!Init /\ Http!Init

Next ==
  /\ UNCHANGED program
  /\ \/ program = "calc" /\ Calc!Next /\ UNCHANGED <<echoVars, poolVars, httpVars>>
     \/ program = "echo" /\ Echo!Next /\ UNCHANGED <<calcVars, poolVars, httpVars>>
     \/ program = "pool" /\ Pool!Next /\ UNCHANGED <<calcVars, echoVars, httpVars>>
     \/ program = "http" /\ Http!Next /\ UNCHANGED <<calcVars, echoVars, poolVars>>

\* The fairness of the modules, for the one that runs.
Fairness ==
  /\ WF_calcVars(program = "calc" /\ Calc!Parent)
  /\ \A c \in CalcClients : /\ WF_calcVars(program = "calc" /\ Calc!Child(c))
                           /\ WF_calcVars(program = "calc" /\ Calc!Client(c))
  /\ WF_echoVars(program = "echo" /\ Echo!Daemonize) /\ WF_echoVars(program = "echo" /\ Echo!Accept)
  /\ \A w \in Workers : WF_echoVars(program = "echo" /\ Echo!Worker(w))
  /\ \A c \in Clients : WF_echoVars(program = "echo" /\ Echo!ReadReply(c))
  /\ WF_httpVars(program = "http" /\ Http!Run)
  /\ \A c \in HttpClients : WF_httpVars(program = "http" /\ Http!Thread(c))

Spec == Init /\ [][Next]_vars /\ Fairness

-----------------------------------------------------------------------------
(***************************************************************************)
(* The modules' properties, each where it is stated.                       *)
(***************************************************************************)

\* Every variable of every program has its type.
TypeOK == Calc!TypeOK /\ Echo!TypeOK /\ Pool!TypeOK /\ Http!TypeOK

\* The calculator: the children are a request-reply service.
IsRequestReply == Calc!IsRequestReply

\* The calculator: answers belong to questions, and a read is an answer.
AnswersMatchQuestions == Calc!AnswersMatchQuestions

\* The calculator: no client waits for ever.
ClientsEnd == program = "calc" => Calc!ClientsEnd

\* Both thread pools: no signal is lost.
WorkersMatchTasks == Pool!WorkersMatchTasks /\ Echo!PoolMatchesTasks

\* The echo server: reused descriptors never mix up clients.
NoCrossTalk == Echo!NoCrossTalk

\* The reconnecting client: it gives up only when one service has failed throughout.
OfflineOnlyAfterRetries == Echo!OfflineOnlyAfterRetries

\* The echo server: only silent clients keep others waiting.
OnlySilenceStarves == Echo!OnlySilenceStarves

\* The HTTP server: each client gets the answer to its own request.
OwnAnswer == Http!OwnAnswer

\* The HTTP server: who asks and stays is answered, unless another ends the process.
EveryRequestAnswered == Http!EveryRequestAnswered
=============================================================================
