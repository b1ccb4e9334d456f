------------------------------ MODULE Programs ------------------------------
(***************************************************************************)
(* The programs that do everything in one loop: the multiplexing servers,  *)
(* the UDP servers, the shells and the pairs that meet at a FIFO, and two  *)
(* that end: the pipe and the ticket sale.  They share nothing: the first  *)
(* state chooses the one that this behaviour is about, and the others stay *)
(* as they are.                                                            *)
(***************************************************************************)
EXTENDS Integers, Sequences

CONSTANTS
  Kinds, Clients, Slots, Listener, Fds, Alias, Backlog, MaxData, \* SlotServer; Clients also FifoPair
  EchoLines, MaxLost, MaxTwice,                                \* UdpEcho: EchoLines[c] for each client c
  Ips, Ports, MaxChat,                                         \* UdpChat
  Versions, Inputs, ShellLines, MaxScript, Opens, Codes, Home, Dirs, \* Shell
  Pairs, MaxStarts,                                            \* FifoPair
  Capacity, Reads, Chunk,                                      \* AnonymousPipe
  Threads, Tickets                                             \* TicketSale

VARIABLES
  program,                                                     \* the one that runs
  kind, pc, slots, interest, report, at, open, backlog, peer,  \* SlotServer
  net, user, lost, twice,                                      \* UdpEcho
  online, sender, arriving, handled, heard, before,            \* UdpChat
  version, input, script, shells, ran, started, failed, eof,   \* Shell
  pair, dir, server, fifo, segment, client, starts, failures, \* FifoPair
  pipe, readers, writers, father, child,                       \* AnonymousPipe
  lock, tickets, seller, printed, joined                       \* TicketSale

slotVars == <<kind, pc, slots, interest, report, at, open, backlog, peer>>
echoVars == <<net, user, lost, twice>>
chatVars == <<online, sender, arriving, handled, heard, before>>
shellVars == <<version, input, script, shells, ran, started, failed, eof>>
fifoVars == <<pair, dir, server, fifo, segment, client, starts, failures>>
pipeVars == <<pipe, readers, writers, father, child>>
saleVars == <<lock, tickets, seller, printed, joined>>
vars == <<program, slotVars, echoVars, chatVars, shellVars, fifoVars, pipeVars, saleVars>>

-----------------------------------------------------------------------------
Slot == INSTANCE SlotServer

EchoClients == DOMAIN EchoLines
Echo == INSTANCE UdpEcho WITH Clients <- EchoClients, Lines <- EchoLines, client <- user

Chat == INSTANCE UdpChat WITH MaxLines <- MaxChat, net <- arriving

Sh == INSTANCE Shell WITH Lines <- ShellLines, MaxLines <- MaxScript

Fifo == INSTANCE FifoPair

Pipe == INSTANCE AnonymousPipe

Sale == INSTANCE TicketSale WITH pc <- seller

\* What the proofs need of the constants, beside what each instance says of its own.
ASSUME SlotAssumption == Slot!SlotConstants
ASSUME EchoAssumption == /\ \A c \in EchoClients : EchoLines[c] \in Seq(STRING)
                         /\ MaxLost \in Nat /\ MaxTwice \in Nat
ASSUME ChatAssumption == MaxChat \in Nat
ASSUME ShellAssumption ==
  /\ Home \in Dirs /\ MaxScript \in Nat
  /\ Versions \subseteq {"plain", "redirecting"} /\ Inputs \subseteq {"terminal", "pipe"}
  /\ ShellLines \subseteq [words : Seq(STRING), op : {"none", "<", ">", ">>"}, file : STRING]
  /\ \A w \in DOMAIN Codes : Codes[w] \in Int
ASSUME FifoAssumption == Pairs \subseteq {"pipe", "shm"}
ASSUME PipeAssumption == Capacity \in Nat /\ Reads \in Nat /\ Chunk \in Nat
ASSUME TicketsAssumption == Tickets \in Nat

-----------------------------------------------------------------------------
\* What does not run starts in one of its states.
Init ==
  /\ program \in {"slot", "echo", "chat", "shell", "fifo", "pipe", "sale"}
  /\ Slot!Init /\ Echo!Init /\ Chat!Init /\ Sh!Init /\ Fifo!InitState /\ Pipe!Init /\ Sale!Init
  /\ program = "slot" \/ kind = "select"
  /\ program = "shell" \/ (version = "plain" /\ input = "terminal")
  /\ program = "fifo" \/ (pair = "shm" /\ dir)

Next ==
  /\ UNCHANGED program
  /\ \/ program = "slot" /\ Slot!Next /\ UNCHANGED <<echoVars, chatVars, shellVars, fifoVars, pipeVars, saleVars>>
     \/ program = "echo" /\ Echo!Next /\ UNCHANGED <<slotVars, chatVars, shellVars, fifoVars, pipeVars, saleVars>>
     \/ program = "chat" /\ Chat!Next /\ UNCHANGED <<slotVars, echoVars, shellVars, fifoVars, pipeVars, saleVars>>
     \/ program = "shell" /\ Sh!Next /\ UNCHANGED <<slotVars, echoVars, chatVars, fifoVars, pipeVars, saleVars>>
     \/ program = "fifo" /\ Fifo!Next /\ UNCHANGED <<slotVars, echoVars, chatVars, shellVars, pipeVars, saleVars>>
     \/ program = "pipe" /\ Pipe!Next /\ UNCHANGED <<slotVars, echoVars, chatVars, shellVars, fifoVars, saleVars>>
     \/ program = "sale" /\ Sale!Next /\ UNCHANGED <<slotVars, echoVars, chatVars, shellVars, fifoVars, pipeVars>>

\* The fairness of the modules, for the one that runs.
Fairness ==
  /\ WF_slotVars(program = "slot" /\ Slot!Server)
  /\ WF_echoVars(program = "echo" /\ Echo!Run)
  /\ \A c \in EchoClients : WF_echoVars(program = "echo" /\ Echo!Receive(c))
  /\ WF_pipeVars(program = "pipe" /\ Pipe!Father) /\ WF_pipeVars(program = "pipe" /\ Pipe!Child)
  /\ WF_saleVars(program = "sale" /\ Sale!Join)
  /\ \A t \in Threads : /\ WF_saleVars(program = "sale" /\ Sale!Create(t))
                      /\ WF_saleVars(program = "sale" /\ Sale!GetTicket(t))

Spec == Init /\ [][Next]_vars /\ Fairness

-----------------------------------------------------------------------------
(***************************************************************************)
(* The modules' properties, each where it is stated.                       *)
(***************************************************************************)

\* Every variable of every program has its type.
TypeOK == /\ Slot!TypeOK /\ Echo!TypeOK /\ Chat!TypeOK /\ Sh!TypeOK /\ Fifo!TypeOK
          /\ Pipe!TypeOK /\ Sale!TypeOK

\* Select, poll, epoll: no handler is called on a descriptor that is not ready.
NeverBlocks == Slot!NeverBlocks

\* Select, poll, epoll: what is open is watched, once, and nothing else.
TableMatchesOpen == Slot!TableMatchesOpen

\* Select, poll, epoll: what arrives is read.
EveryMessageRead == Slot!EveryMessageRead

\* UDP echo: only a datagram delivered twice puts a client out of step.
AnswersInStep == Echo!AnswersInStep

\* Who waits is not left waiting: in the UDP echo only the network stops a
\* client, the pipe's father ends with his child reaped, and the sellers end with
\* every ticket sold once.
NobodyIsStuck ==
  /\ Echo!OnlyLossStops
  /\ program = "pipe" => Pipe!FatherEnds
  /\ program = "sale" => Sale!SoldOnce

\* UDP chat: an address in the table hears everything from its first word on.
RegisteredHears == Chat!RegisteredHears

\* The shell: a program runs with the redirection of its own line, no line is
\* executed twice but after a failed open, from a pipe, and before the end of its
\* input only a line without words, or a "cd" without PWD, ends it.
LinesRunAsTyped == Sh!OwnRedirection /\ Sh!LinesRunOnce /\ Sh!OnlyFatalLines

\* Named pipe and shared memory: the end of main leaves nothing behind, and every
\* other end of a server a FIFO that stops all later ones.
NothingLeftBehind == Fifo!NothingLeftBehind
=============================================================================
