# A formal model of MyLinux_rep

The repository is a collection of small Linux programs: network servers, thread
and process pools, inter-process communication, a shell, an output library.
They share no state with each other; each directory is a system of its own.
This project models all that have a state in which something can go wrong, one
TLA+ module per system, checks them with TLC on small instances and proves with
TLAPS, for every value of the constants, every invariant that these checks found
to hold, and the safety part of every refinement.

## 1. Inventory

The directory of each component, the state it keeps, its operations, whom it
talks to, what is hard about it and what makes it correct.

### Servers and clients (`src/Net`)

| Component | State | Operations and partners | Hard | Correct when |
|---|---|---|---|---|
| **Reactor** `Multiplexing/Reactor` | `connections_` (fd to `Connection` with two buffers), epoll's interest and ready lists, `event_queue` | `Loop`, `Dispatcher`, `Accepter`, `AddConnection`, `Recver`, `AppRead`, `Writer`, `ModEpollEvent`, `Excepter`; peers over TCP, kernel by system calls, callbacks kept in `Connection` | edge-triggered events, non-blocking calls that stop half-way, descriptors reused while a batch is dispatched, peers that reset | no event is lost; the three descriptor tables agree; no handler outlives its connection; each request is answered once |
| **Calculator protocol** (`Protocol.hpp`, `CalServer.hpp`, in Reactor and `3.Net`) | the text buffer it decodes in place | `Encode`, `Decode`, `serialize`, `deserialize`, `Handler`, `CalculatorHelper` | half and several packets, division by zero | the packets taken out of a stream are the ones put in, however it was cut |
| **Calculator clients** (`CalClient.cpp`) | `inbuffer_stream` | write one request, read, decode, assert | one read is taken for one answer | stays in step with the server, or ends |
| **Forking calculator server** `3.Net` | per child `inbuffer_stream`; the connection's descriptors in parent and children | accept, fork, read, decode all packets, write, exit | one child per client, pipelined requests, inherited descriptors | every complete packet is answered before the next read; the end of a connection reaches the client |
| **Echo server with pool** `2.Net` | singleton `tp_`, `taskpool_`, descriptors | `Init`, `Daemon`, `Run`, `Push`, `CarryTask`, `Task::Run`, `Dictionary` | a worker is held by its client; descriptors reused while tasks wait; one worker's `exit` ends all | the right answer to the right client; only silent clients keep others waiting |
| **Reconnecting client** `2.Net/Client.cc` | `cnt`, `isreconnect` | connect up to five times, one line per connection | failures between any two calls | gives up after five failures in a row, not before |
| **Select, Poll, Epoll servers** `Multiplexing` | slot tables `fds_`, epoll's list | `Run`, `Dispatcher`, `Accepter`, `Recver` | the table changes while it is traversed; blocking descriptors | no handler blocks; what is open is watched, once |
| **UDP echo** `1.Net` | none at the server | `Run`, `Handle`; client `sendto`, `recvfrom` | loss, reordering, duplicates | a client's answers are in step unless the network duplicates |
| **UDP chat** `1.Net/udpfundesign` | table `online` | `Run`, `CheckUser`, `Broadcast` | two users of one host | who is registered hears everything from its own first word on |
| **HTTP server** `4.Net` | heap cells that carry descriptors to threads | `Run`, `ThreadRun`, `HttpRequestHandler`, `Deserialize`, `Parse`, `ReadFile` | cells and descriptors reused; one recv taken for a request; SIGPIPE; a url that names a directory ends the process | each client gets the answer to its own request |

### Threads (`src/Thread`)

| Component | State | Operations and partners | Hard | Correct when |
|---|---|---|---|---|
| **BlockQueue** `thread_3` | `blockqueue_`, `mutex_`, `p_cond_`, `c_cond_`, `cap_` | `Push` by producers, `Pop` by consumers | spurious and stolen wakeups, lost signals | a live first-in first-out buffer of `cap_` tasks |
| **RingQueue** `thread_4` | `ringque_`, two indices, two semaphores, two mutexes | `Push`, `Pop` | two mutexes that do not exclude each other | the same promise as BlockQueue |
| **Thread pool** `thread_4` | `threads_`, `taskpool_`, one condition variable | `Start`, `Push`, `CarryTask` | a signal that wakes nobody, a task taken by somebody else | no task waits while everybody sleeps |
| **Ticket sale** `thread_2` | `tickets` under a scoped lock | `GetTicket` | leaving the scope by `break` | each ticket is sold once, all threads end |

### Processes (`src/pro_interact`, `src/process_control`, `src/file_sys`, `src/signal`)

| Component | State | Operations and partners | Hard | Correct when |
|---|---|---|---|---|
| **Process pool** `pro_interact/2.no_namepipe_use` | the pipes' write ends in every process, pipe contents, `which` | `Init`, `Allocate_task_3`, `Recycle`, `Run_childpro` | inherited descriptors keep a pipe open | recycling ends, every task sent is run |
| **Named pipe**, **shared memory** | the FIFO's file, the segment | open, read, write, unlink, `shmget` | every exit after `mkfifo`, and every kill, leaves the file; a client that comes first makes the segment | a server that comes to the end of `main` leaves nothing behind |
| **Anonymous pipe** | the pipe, who holds its ends | a writer without end, a reader of three | SIGPIPE and end of file depend on every holder | the father ends, the child is reaped |
| **Output library** `mystdio.c` | buffer, position, mode | `_fopen`, `_fwrite`, `_fflush`, `_fclose` | when a buffer is written, and where | what was written is in the file after close |
| **Shells** `myshell.c` (plain, and with redirection) | `redir`, `lastcode`, `myenv` | parse, built-ins, fork, redirect, exec, wait | failure in the child before exec; a line without words; one `myenv` for all variables | a line runs once, with its own redirection, and the shell outlives it |
| Waiting `pro_wait.c` | `tasks[]` | non-blocking wait and work | | the child is reaped once |
| Signals, libraries, demonstrations, logs | little or none | | | not modelled: nothing they do interacts |

Components in bold are modelled. `PROJECT.json` lists every component with its sources and status, and under
"hazards" what is hard to test, at its line.

## 2. Modules

| Module | Models | Runs | Proofs |
|---|---|---|---|
| `Reactor` (`MCReactor` adds the symmetry set) | `Net/Multiplexing/Reactor` | `reactor_safe`, `reactor_live`, `reactor_resend`, `reactor_pipelined`, `reactor_out_edge` | `ReactorProofs` |
| `TaskFifo` | abstract: a bounded first-in first-out buffer with fair hand-over | as a property of the next two | |
| `BlockQueue` | `Thread/thread_3` | `blockqueue` | `BlockQueueProofs` |
| `RingQueue` | `Thread/thread_4/RingQueue.hpp`, `SemCP.cpp` | `ringqueue` | `RingQueueProofs` |
| `ProcessPool` | `pro_interact/2.no_namepipe_use/pipeuse.cpp` | `processpool`, `processpool_input` | `ProcessPoolProofs` |
| `RequestReply` | abstract: questions are answered in order, each once and correctly | as a property of `CalcService` | |
| `CalcService` | `Net/3.Net`: server, children, clients, protocol | `servers` | `ConnectionProofs` |
| `ThreadPool` | `Thread/thread_4/ThreadPool.hpp`, `ThreadPool.cpp`; instantiated by `EchoServer` | `servers` | `ServersProofs` |
| `EchoServer` | `Net/2.Net`: server, pool, dictionary, client | `servers` | `ServersProofs` |
| `HttpServer` | `Net/4.Net` | `servers` | `ConnectionProofs` |
| `Servers` | nothing: composes the four above into one specification with one list of properties | `servers` | `ServersProofs` |
| `SlotServer` | `Net/Multiplexing/Select`, `Poll`, `Epoll` | `programs` | `SlotServerProofs` |
| `UdpEcho`, `UdpChat` | `Net/1.Net`, `Net/1.Net/udpfundesign` | `programs` | `ProgramsProofs` |
| `Shell` | `process_control/myshell`, `file_sys/duplicate` | `programs` | `ProgramsProofs` |
| `FifoPair` | `pro_interact/3.namedpipe`, `4.sharedmem` | `programs` | `ProgramsProofs` |
| `AnonymousPipe`, `TicketSale` | `pro_interact/1.noname_pipe`, `Thread/thread_2` | `programs` | `ProgramsProofs` |
| `Programs` | nothing: composes the seven above, as `Servers` does | `programs` | `ProgramsProofs` |
| `BufferedFile` | `file_sys/buffer/myfile` | `mystdio` | |
| `MCServers`, `MCPrograms` | nothing: values for the constants of `Servers` and `Programs` | `servers`, `programs` | |

### Reactor

The server is one thread (`pc`, `cur`, `pos`); every step is one system call or
the code between two, so that peers and kernel (`Connect`, `Arrive`, `Drain`,
`Finish`, `Reset`, all external) move between any two calls.

* `own` is the descriptor table, `mask` epoll's interest list, `reg` the keys of
  `connections_`; `accept` hands out the lowest free descriptor, as POSIX says,
  so that a descriptor is reused as early as possible.
* `ready` is epoll's ready list. A wakeup puts a descriptor on it (`Woken`);
  `EpollWait` takes at most `Batch` of them off it and computes their events at
  that moment (`Revents`), which is what edge-triggered means; `EPOLL_CTL_ADD`
  and `EPOLL_CTL_MOD` look at the socket again. `batch` holds the events of
  `event_queue` that `Dispatcher` has yet to look at, in any order.
* A stream is a count of units. A request is `ReqLen` units, an answer `RspLen`;
  `kbuf`, `inb`, `outb`, `queued` and `got` count the units in the kernel's
  receive buffer, `inbuffer_`, `outbuffer_`, the kernel's send buffer and at the
  peer. This is enough to tell half a packet from a whole one from several, and
  an answer sent once from one sent twice.
* Peers speak the protocol: each packet is complete and well formed in the end.
  `EINTR` and a failing `epoll_wait` only repeat the call and are left out.
  `SendSigPipe` is the signal a send raises after a FIN and a reset.
* `FairSpec` is weak fairness of the server's thread alone: `Loop` never blocks
  but in `epoll_wait`. Peers promise nothing.

### BlockQueue, RingQueue and TaskFifo

Each thread has a place `pc[t]`, the next call it makes. In `BlockQueue`,
`pthread_cond_wait` is the three steps `Wait` (release and sleep, atomically),
a `Signal` or a `SpuriousWakeup`, and `Relock`. In `RingQueue`, the write and
the read of a slot are steps of their own, between lock and index update, so
that two threads on one slot would be seen (`NoDataRace`).

`TaskFifo` is what a caller may rely on. The refinement of `BlockQueue` maps the
buffer to `blockqueue_`, less its head while a consumer stands between copying
and removing it. The one of `RingQueue` maps it to the slots, from the oldest
on, that are counted neither by the free semaphore nor by a thread that has
reserved one.

Fairness is weak for each thread: a thread that is not blocked is scheduled.
Mutexes and semaphores need not be fair, and nothing is promised to one
consumer, only that somebody takes what waits. `BlockQueue` also assumes that
wakeups without a signal do not come for ever.

### ProcessPool

`writers[i]` is the set of processes that hold a write end of pipe `i`. A fork
copies those of all earlier pipes; `toclose` is what the child then closes, in
the code's order: its own, then its copy of `fd_del_tab`. `read` returns 0 only
on an empty pipe without writers. `typed` remembers how the menu was left. A
wrong number changes nothing and is left out. `FairSpec` schedules every
process; the user may stay at the menu for ever.

### CalcService and RequestReply

A byte stream is a sequence of symbols, a packet a header symbol with the length
of its content and the content, so that a read may return half a packet, or one
and a half, and `Decode` has to find the packets again; the length of a packet
depends on the numbers in it. `holders[c]` is the set of processes with `c`'s
connection open: `Fork` copies the parent's descriptors, so that a child also
holds whatever the parent has not closed yet. `InitServer` and `fork` may fail.
One client asks and reads in turn, as `CalClient.cpp` does; the other sends
everything first, as its comments (`:53-62`) say one could, and handles the answers one by
one. The refinement maps `asked` to what the client has written, `replied` to
what the child has computed, `over` to a child that is gone or was never made.
`IsRequestReply` is what the Reactor, which decodes one packet per event, does
not satisfy (`NoRequestLeftBehind`).

### ThreadPool and EchoServer

A critical section of the pool is one step: nothing outside looks at the queue,
and `pthread_cond_wait` sleeps as it unlocks. `EchoServer` instantiates the pool
with descriptors as tasks. `fdtab` is the server's descriptor table; a worker
knows a connection only by its number in it, as the code does. `conn[k]` holds
both directions and both ends of a connection. `Crash` is the end of the process
anywhere, which `Dictionary::Init`'s `exit(1)` can cause from inside a worker, and
`Boot` a new start. `GetInstance` is only called by the main thread, so that its
double-checked test has nothing to race with. `Words[c]` is what user `c` may type,
line by line, unless he stops: each user has words of his own, so that an answer to
somebody else's is another answer, and a user without any is one who connects and
says nothing. Of an empty line nothing is sent, and the service ends. `cnt` counts
down from `Retries[c]` as in `Client.cc`, and `refused` remembers the failures of
the current service for `OfflineOnlyAfterRetries`.

### HttpServer

A detached thread per connection reads its descriptor from a heap cell that is
freed when it ends. `Recv` joins what arrived with what an uncleared buffer may
hold (`Stale`): an undefined read is a choice over those contents. A request
line that was cut can therefore be parsed as something else or as nothing, which
reads through a null pointer and ends the process, as `SIGPIPE` does in `Send`. So
does a url that names a directory under `wwwroot` (`Directories`): the stream opens,
`tellg` gives no length, `resize` throws (`Throws`), and nobody catches it (`Fatal`).
A request line without a second word has the url `""`, which is `wwwroot` itself.

### SlotServer

The three multiplexing servers differ in what a wait returns and in where a new
descriptor goes; `kind` says which one runs. `Dispatcher` handles one slot (or
event) per step, with clients moving in between. Descriptors are blocking:
`Accept` on an empty queue and `read` on an empty socket set `pc` to `"blocked"`.
`FD_ISSET` of an empty slot's -1 tests the bit of descriptor 63 of the set, which
the C library's shift makes of it (`Alias`).

### UdpEcho, UdpChat

The network is a set of datagrams: any may be next (reordering), be taken away
(loss) or stay after delivery (duplication). In the chat a lost datagram is one
that is never delivered; `heard` is what the server sent on to whom. A client's
`recvfrom` that returns no byte does not happen: each answer has a heading, and a
socket that is not connected is told of no error.

### Shell

`shells` is a stack of processes in the loop: each waits for the one above it,
because a child whose file cannot be opened returns into `main`'s loop. `input`
tells a terminal, which gives each line to one reader, from a pipe, of which
each process has its own buffered copy. `where` is the place of `PWD`'s text:
`putenv(myenv)` has one buffer for all variables, so that an export of another one,
or of the name alone, takes `PWD` away (`"lost"`), and the next `cd` writes through a
null pointer. `fork` may fail. `Splitcommand` counts the terminating null pointer
as a word: `argc` is never 0, the test for it (`myshell.c:208`) never met, and a line
without words (empty, or to the redirecting shell a redirection alone) goes on to
`strcmp(_argv[0], "ls")` and ends the shell. A shell that ends is waited for by the
one below it, if there is one; `eof` tells such an end from the input's.

### FifoPair, AnonymousPipe, TicketSale, BufferedFile

`FifoPair` keeps what is in the file system (`fifo`, `segment`) when processes
come and go. `dir` is whether the directory exists that the code names: in
`3.namedpipe` the one of the log, without which `PrintOnefile` ends the server, in
`4.sharedmem` the one of `ftok`'s key, without which `GetKey` does, after `mkfifo`.
`mkfifo`, `shmget` and `open` may fail for other reasons too, and a server can be
killed anywhere; its ways of giving up are collected in `failures`. In `AnonymousPipe`, as in `ProcessPool`, the state that
matters is who holds which end. `TicketSale` has a step per statement between
lock and unlock. `BufferedFile` allows any sequence of calls on one stream that
fits its buffer; `fileno` is the file, anything else goes `elsewhere`.

### Servers and Programs

The programs share nothing. `Servers` and `Programs` put several into one
specification each: the first state chooses the `program` that the behaviour is
about, the others stay in an initial state. A property of `Servers` or `Programs`
is that of the module it comes from, under the same name; `TypeOK` is all of theirs.
Both state, in named assumptions, what the code gives of the constants.

## 3. Runs and bounds

| Run | Instance | Checks | Why it is enough |
|---|---|---|---|
| `reactor_safe` | 3 peers, 2 descriptors, batch of 2, requests and answers of 2 units, send buffer of 1 | `TypeOK`, `TablesAgree`, `NoLostRead`, `SendsSomething`, `HandlersHaveAConnection`, `EventsStayFresh`, `ClosesOnlyDeadPeers` | a descriptor is closed and handed out again, accept runs out of descriptors, a packet comes in halves, a send stops half-way, two events share a batch |
| `reactor_live` | 2 peers, 2 descriptors, batch of 1, two requests in lockstep, a fair server | `CloseIsNoticed`, `EveryRequestDecoded` | with a batch of 1 the ready list is longer than a batch |
| `reactor_resend` | 1 peer, lockstep | violates `AnswersSentOnce` | |
| `reactor_pipelined` | 1 peer, not lockstep | violates `NoRequestLeftBehind` | |
| `reactor_out_edge` | 1 peer, answer larger than the send buffer | violates `LeftoverIsPending` | |
| `blockqueue` | 2 producers, 2 consumers, 2 tasks, capacity 2 | `TypeOK`, `TestStillHolds`, `NoLostWakeup`, `IsLiveFifo` | two sleepers on each side, an empty and a full queue |
| `ringqueue` | the same | `TypeOK`, `TokensBalance`, `NoDataRace`, `IsLiveFifo` | the indices wrap, two threads of a side hold tokens at once |
| `processpool` | 3 children, 2 codes, 2 tasks each | `TypeOK`, `NoForgottenWriteEnd`, `NoTaskLost`, `RecycleEnds` | the third child inherits two write ends, the round robin wraps |
| `processpool_input` | 2 children | violates `LeavesOnZero` | |
| `servers` | calculator: 2 clients, 2 and 3 requests, reads of up to 3 symbols; echo: 2 workers, 3 clients (two with a word of their own, one silent), 1 or 2 attempts, 1 crash; pool: 3 workers, 3 tasks; HTTP: 3 clients, one of which leaves, one cuts its line, one may ask for a directory | `TypeOK`, `IsRequestReply`, `AnswersMatchQuestions`, `ClientsEnd`, `WorkersMatchTasks`, `NoCrossTalk`, `OfflineOnlyAfterRetries`, `OnlySilenceStarves`, `OwnAnswer`, `EveryRequestAnswered` | packets are cut in two and joined, a child is forked while another lives, descriptors and connections are reused, the backlog is full, a descriptor is handed out again while the other worker has read a word and not answered it, one worker or both are held by silent clients, a crash finds clients in every state, a cell of the heap is used again |
| `programs` | multiplexing: 3 clients, 3 slots (epoll: 2 descriptors); UDP: 2 clients, 1 loss, 1 duplicate; chat: 2 hosts of 2 users; shells: 3 lines of 15 kinds; FIFO: 3 clients, 3 starts; pipe of 3 messages; 3 sellers, 4 tickets | `TypeOK`, `NeverBlocks`, `TableMatchesOpen`, `EveryMessageRead`, `AnswersInStep`, `RegisteredHears`, `LinesRunAsTyped`, `NothingLeftBehind`, `NobodyIsStuck` | the table is full, a slot is freed and filled in one traversal, `Alias` is ready while a slot is free, a shell in a shell in a shell, a line that ends one of them, `PWD` exported, taken away and then needed by `cd`, a server after one that gave up in each of its ways |
| `mystdio` | texts of up to 2 characters, a buffer of 4 | violates `AllReachesTheFile` | |

In the runs `servers` and `programs` one program moves and the others do not, so
that the state space is the sum of theirs, not their product. A property of one
program holds of the others' initial states or is conditional on `program`.

`MaxReq`, `MaxGot`, `MaxTasks`, `Words`, `MaxLeaves`, `MaxData`, `MaxLines`,
`MaxStarts`, `MaxText` and `MaxMessage` bound what peers and users do, `MaxCrashes`,
`MaxLost` and `MaxTwice` the faults, `Chunk` a read; the code has none of these
bounds. In `servers`, `programs` and `mystdio` deadlock is not checked, because
these programs may really stop: users leave, servers end, the bounds are used up.
In the other runs it is: those servers wait with a timeout, and a killed server
and a finished father stay as they are.

Fairness is weak and per process or thread everywhere. A calculator client is
scheduled like the server, because nothing in its loop waits for a user. The
echo server's main thread and workers and its clients' reads are fair, its users
and whoever starts it again are not. `HttpServer` schedules its threads; peers
promise nothing. `SlotServer` schedules its one thread, but not the signal that
makes `poll` fail. In `UdpEcho` what is not lost is delivered. `AnonymousPipe` and
`TicketSale` schedule both processes and all threads, not the signal.

### What the violated runs show

* `AnswersSentOnce` (`TcpSever.hpp:256`): `Writer` erases what it sent from a
  copy, so that `outbuffer_` grows and each answer is sent again with every later
  one.
* `NoRequestLeftBehind` (`Main.cpp:17`): one packet is decoded per read event;
  the second of two that came together waits for the peer's next bytes.
* `LeftoverIsPending` (`TcpSever.hpp:170`): an event that is readable and
  writable loses its writable half, and the rest of an answer its edge.
* `LeavesOnZero` (`pipeuse.cpp:134`): a word typed at the menu is read as 0.
* `AllReachesTheFile` (`mystdio.c:78`): `_fflush` writes to the descriptor
  `fp->flag` instead of `fp->fileno`, so that what is buffered at `_fclose` is not in
  the file.

### What the passing properties do not promise

Several are stated with the exception the code makes, and the exception is the
message: `OnlySilenceStarves` (as many silent clients as workers stop the echo
server, and while one works nobody starves), `EveryRequestAnswered` (a request line
cut in two, a reset after a close, or a url that names a directory ends the HTTP
server for all; peers ask once and keep what they got, so that `<>[]` over all of
them says it of each), `AnswersInStep` (one duplicated datagram puts a UDP client out
of step for good), `RegisteredHears` (the second user of a host is never
registered), `LinesRunAsTyped` (after a failed open, lines of a pipe run twice; a
line without words ends the shell, and so does `cd` after an export took `PWD` away;
nothing else that is typed does), `NothingLeftBehind` (a server that was killed or
took any of its exits leaves the FIFO, and none runs after it; the segment stays
only when its maker was killed or could not open; a client of the shared-memory pair
can wait for ever on a FIFO that is gone), `AnswersMatchQuestions` (an answer that comes in
two reads ends the client).

`NoRequestLeftBehind` is why `EveryRequestDecoded` is stated for peers that ask
one question at a time (`Lockstep`), as `CalClient.cpp` does.

## 4. Proofs

`ReactorProofs` proves, for any set of peers, any number of descriptors and any
lengths (`ReactorAssumption` only), that every reachable state satisfies

    IInv == TypeOK /\ TablesAgree /\ NoLostRead /\ SendsSomething
            /\ HandlersHaveAConnection

The five need each other. `NoLostRead` of a descriptor is kept by a dispatch
because `TablesAgree` says that `EPOLLIN` is always watched, so that a readable
connection is reported as readable; `TablesAgree` is kept by `AddConnection` and
`Excepter` because `HandlersHaveAConnection` says that the descriptor a handler
works on is open; `SendsSomething` needs that an `EPOLLOUT` event in the batch is
one of a connection with data (`HandlersHaveAConnection`), because `Dispatcher`
looks at the batch and not at the mask. There is one lemma per actor (peer,
loop, accepter, receiver, writer, excepter), and under it one step per action.
The action properties `EventsStayFresh` and `ClosesOnlyDeadPeers` follow from the
same invariant: a handler only closes its own descriptor, whose event has left
the batch, and reaches `Excepter` only with the stream at its end.

`BlockQueueProofs` proves, for any threads, tasks and capacity
(`BlockQueueAssumption`), `TypeOK`, `TestStillHolds` and that every step is a step
of `TaskFifo` or a stutter (`IsFifo`): `Push` puts, `Front` takes, and everything
else, spurious wakeups included, leaves the abstract buffer alone.

`NoLostWakeup` is proved for finitely many threads. Its two halves are one
formula (`Enough`) with the sides exchanged: while some of a side sleep, its awake
threads and the other side's unsent signals are enough for all that waits. It is
inductive with `BInv`: who appends a task becomes a signaller, a signal turns into
a thread awake or finds nobody asleep, and only a thread that found nothing goes
to sleep, under the mutex.

`RingQueueProofs` proves, for any finite sets of threads and any capacity, `TypeOK`,
`TokensBalance`, `NoDataRace` and `IsFifo`. Semaphores and the threads between them
count every slot once (`Balance`: free, full, being filled or emptied on one side
or the other of the index); the indices differ by what lies between them, once
around the ring at most (`Distance`). A producer and a consumer that are both on
their way to a slot make that distance neither 0 nor the capacity, so that the
slots differ: no mutex is needed for that. The mutexes matter for the refinement of
`TaskFifo`, where one thread of a side at a time moves its index (`Mutex`) and the
slot it has filled keeps its task until then (`Pushes`).

`ProcessPoolProofs` proves, for any number of children and tasks, `TypeOK`,
`NoForgottenWriteEnd` and `NoTaskLost`. What was sent to a child is what it has run
followed by what is in its pipe (`Flow`), and the father keeps a write end of each
pipe until he closes it (`FatherHolds`), so that end of file comes only after both;
that a later child inherits and closes the right ends needs that children the loop
has not come to do not exist (`Unborn`).

`SlotServerProofs` proves, for any clients, slots and descriptors,
`TableMatchesOpen` and `NeverBlocks` for select, poll and epoll. What keeps
`NeverBlocks` is `StillReady`: whatever the last wait reported, and the traversal
has not reached, is still ready. A read or a close of one descriptor leaves the
others ready because nobody is behind two (`OnePlace`). The dangerous step is an
accept in the middle of the traversal: the listener has slot 0 (`ListenerFirst`),
so that for select it comes before anything is closed, and the new descriptor was
not open when the set was taken; poll reported slots, and one that was free is not
among them. A hit of the alias's bit for a free slot changes nothing, because
`read(-1)` fails and a free slot is freed.

`ProgramsProofs` proves the rest of `Programs`, each program with an invariant of
its own (`ProgramsInv` is all of them), because a step of one leaves the variables
of the others alone:

* UDP echo, `AnswersInStep`: every datagram is about a line its client has typed
  (`SaidBefore`), and until something is delivered twice a client has one datagram
  under way, only while it waits, and that one is about its last line
  (`OneUnderWay`). Loss and reordering are then harmless.
* UDP chat, `RegisteredHears`: a datagram is received once (`Once`), the table holds
  an address of each host heard of (`Table`), who is not in it has heard nothing
  (`Silent`), and what came before a first word had been handled (`Past`).
* Shells, `LinesRunAsTyped`: every turn of `main`'s loop ends in one of three ways
  (`Outcome`: the same shell in another state, its end, or a child that is a shell).
  The plain shell has no redirection (`PlainHasNone`), and until an open fails there
  is one shell, which has executed what it has read (`OneShell`). That only fatal
  lines end the user's shell needs what each shell's `where` says of the lines read so
  far (`ShellKnows`, `PwdFollows`): its `PWD` is lost only if a line took it away, and
  is in `myenv` only if one gave it a value, in that shell or in the one it is a copy
  of.
* FIFO pairs, `NothingLeftBehind`: without a failure the FIFO is there exactly as
  long as a server, and the segment between its making and its removal; after one the
  FIFO is there for good (`Tidy`). In the named-pipe pair no client is stranded
  (`PipeClients`).
* Ticket sale, `Guarded` and `SoldSoFar`: at most one thread is inside the scope, and
  what has been printed are the first tickets, in order. Both are stated here only.
* The pipe has only its types.

`ConnectionProofs` holds the invariants of the two servers that give a connection a
thread or a process of its own.

* HTTP, `OwnAnswer`: while a thread runs, its cell holds the descriptor behind which
  is its own client and nobody else, and only running threads have cells (`OwnCell`).
  A free cell exists whenever a descriptor does, because each thread has one of
  both. A url waiting to be answered is that of the client's request (`OwnUrl`); what
  an uncleared buffer holds behind a request does not matter once the first line is
  whole (`ParsesFirstLine`).
* Calculator, `AnswersMatchQuestions` and the refinement of `RequestReply`. What a
  buffer holds, followed by what is under way to it, is the packets not taken out
  yet, whole and in order, wherever the bytes were cut (`Flows`). `UpStream` says so of
  the questions a child has not answered, `DownStream` of the answers a client has
  not read. A complete packet at the head of such a buffer is the next one, and
  where none is missing both are empty (`DecodeFirst`, `NothingFlows`). The abstract
  service sees three kinds of steps: a question is written, an answer is computed,
  a child ends. That a child only ends with no question open is what `UpStream`
  gives at end of file: the stream is used up.

The prover's library states induction over numbers with an operator as a parameter,
which cannot be used here, so that facts about streams of any number of packets, and
about dictionaries of any number of lines, are proved by the least counterexample
(`Smallest`): if a fact failed for some number, it would fail for a smallest one,
which is not 0, and one packet or line more does not break it.

`ServersProofs` proves the thread pools, the echo server and with
`ConnectionProofs` the specification `Servers` (`ServersInv`).

* Pools, `WorkersMatchTasks`: inductive with the types; the work is to count who is
  awake. It is proved of any queue and workers (`PoolFacts`) and used for both pools.
* Dictionary: `Find` returns the meaning that the first line with the word gives
  (`FindIsMeaning`), whatever else is in the file.
* Echo server, `NoCrossTalk`: a connection waits once in the backlog or is behind one
  descriptor, and has one client (`Places`); an open descriptor is queued once or
  served by one worker (`Jobs`), so that a number is only handed out again when
  nobody knows it any more; a connection nobody holds is as good as new (`Ends`);
  what is on a connection, and what its worker has read, is its client's word or the
  answer to that (`OwnWord`).
* Reconnecting client, `OfflineOnlyAfterRetries`: attempts left and failures in a row
  add up to `Retries[c]` at least, and who is offline has none left (`Attempts`).

### What the proofs assume

Only the named assumptions of the modules, each of which TLC evaluates in the run of
its module, and finitely many producers and consumers in the theorem
`BlockQueueNoLostWakeup`. They say that bounds, buffer sizes and descriptors are
natural numbers, that threads, descriptors and cells are finite sets, that
lines are strings and numbers in questions are natural, as `rand` makes them; that
each client tries at least once; that the heap has room for a cell per descriptor
(`HttpAssumption`); and where the alias of an empty slot lies (`SlotAssumption`).

### What is only model-checked

* Liveness: `CloseIsNoticed`, `EveryRequestDecoded`, `RecycleEnds`, `EveryMessageRead`,
  `NobodyIsStuck`, `ClientsEnd`, `OnlySilenceStarves`, `EveryRequestAnswered` and the
  fairness part of `IsLiveFifo` and `IsRequestReply`. The prover does neither liveness
  under fairness nor `ENABLED`.
* `BufferedFile`, whose run is about a disagreement of code and comment, and the other
  properties that the code violates.

## 5. Not modelled, and the plan

Not modelled:

* the log (nobody reads its result; that it can end a program is in `FifoPair`),
  JSON, the layout of text and of HTTP headers;
* `signal_*`, `process_control/pro_wait.c`, `fewpro.c`, `exit_pro.c`, `thread_1`,
  `threadCond.cpp`, `library`, `process_add`: demonstrations in which nothing
  interacts with what could disturb it;
* code that is not called: `TcpServer::Service` and `ThreadRun` of `2.Net`,
  `Handle` and `Excecutecmd` of `udpfundesign/Main.cpp`;
* failures of `pthread_create`, of memory and of `socket` in the clients;
* buffers that overflow (`3.Net/TcpServer.hpp:48`, `mystdio.c:49`): what the bytes
  behind them hold is not a state of the program's.

Left, in this order:

1. `AnonymousPipe`: who holds which end, as an invariant behind `NobodyIsStuck`;
   until now the module has only its types and liveness.
2. `BufferedFile`: what the library promises when it is given the file's own
   descriptor, as an abstract stream that it implements.
3. What the pools of `thread_4` and `2.Net` promise who pushes a task, as an abstract
   specification, as `TaskFifo` is for the two queues.
