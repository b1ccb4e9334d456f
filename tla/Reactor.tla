------------------------------ MODULE Reactor ------------------------------
(***************************************************************************)
(* The edge-triggered epoll server of Net/Multiplexing/Reactor: one        *)
(* thread runs TcpServer::Loop; its handlers Accepter, Recver, Writer and  *)
(* Excepter run to completion, one system call per step of this module, so *)
(* that the peers and the kernel move between any two system calls.        *)
(*                                                                         *)
(* A byte stream is a count of units: a request is ReqLen units, an answer *)
(* RspLen units.  Descriptor 0 stands for the listening socket, 1..NFd for *)
(* the descriptors accept can hand out.                                    *)
(***************************************************************************)
EXTENDS Integers, FiniteSets

CONSTANTS
  Conn,      \* the connections that peers may open
  NoConn,    \* no connection
  NFd,       \* how many client descriptors the process may hold (RLIMIT_NOFILE)
  Batch,     \* TcpServer::num, the length of event_queue
  ReqLen,    \* units of one encoded request
  RspLen,    \* units of one encoded answer
  SndBuf,    \* units the kernel's send buffer of a connection holds
  MaxReq,    \* bound: requests one peer sends
  MaxGot,    \* bound: units one peer takes out of the send buffer
  Lockstep   \* TRUE: a peer asks again only when it has been answered

ASSUME ReactorAssumption ==
  /\ NoConn \notin Conn
  /\ {NFd, Batch, ReqLen, RspLen, SndBuf} \subseteq Nat \ {0}
  /\ {MaxReq, MaxGot} \subseteq Nat
  /\ Lockstep \in BOOLEAN

Fd == 1 .. NFd
Listen == 0
AllFd == Fd \cup {Listen}

VARIABLES
  stage,     \* stage[c]: "new", "backlog", "open" (accepted), "closed" (by the server)
  fin,       \* fin[c]: the peer's FIN has arrived
  rst,       \* rst[c]: the peer's RST has arrived
  kbuf,      \* kbuf[c]: units in the kernel's receive buffer
  queued,    \* queued[c]: units in the kernel's send buffer
  got,       \* got[c]: units the peer has received
  inb,       \* inb[c]: units in Connection::inbuffer_
  outb,      \* outb[c]: units in Connection::outbuffer_
  dec,       \* dec[c]: requests decoded so far
  own,       \* own[f]: the connection descriptor f is open on
  reg,       \* reg[f]: the connection connections_[f] manages
  mask,      \* mask[f]: the events epoll watches f for, {} if f is not in epoll
  ready,     \* the descriptors on epoll's ready list
  batch,     \* batch[f]: the events reported for f that Dispatcher has yet to look at
  pc,        \* where the server's thread is
  cur,       \* the descriptor its handler works on
  pos        \* units of Writer's copy of outbuffer_ already sent

peerVars == <<stage, fin, rst, kbuf, queued, got>>
appVars  == <<inb, outb, dec>>
epVars   == <<own, reg, mask, ready>>
loopVars == <<batch, pc, cur, pos>>
vars == <<peerVars, appVars, epVars, loopVars>>

Events == {"IN", "OUT"}
Stages == {"new", "backlog", "open", "closed"}
Places == {"wait", "dispatch", "accept", "add", "recv", "app", "send", "mod",
           "except", "dead"}

Smaller(a, b) == IF a < b THEN a ELSE b

Backlog == {c \in Conn : stage[c] = "backlog"}
Free == {f \in Fd : own[f] = NoConn}

\* What poll says of a connection: readable on data, end of file or error;
\* writable on free space or error.
Readable(c) == kbuf[c] > 0 \/ fin[c] \/ rst[c]
Writable(c) == queued[c] < SndBuf \/ rst[c]
PollOf(c) == {e \in Events : \/ e = "IN" /\ Readable(c)
                             \/ e = "OUT" /\ Writable(c)}

\* What epoll_wait reports of a descriptor taken from its ready list.
Revents(f) == IF f = Listen THEN {e \in {"IN"} : Backlog # {}}
                            ELSE mask[f] \cap PollOf(own[f])

\* The descriptors a wakeup of c's socket puts on the ready list.
Woken(c, evs) == {f \in Fd : own[f] = c /\ mask[f] \cap evs # {}}

\* IsConnectionSafe: connections_ holds f (the listener's entry never leaves).
IsConnectionSafe(f) == f = Listen \/ (f \in Fd /\ reg[f] # NoConn)

Init ==
  /\ stage = [c \in Conn |-> "new"]
  /\ fin = [c \in Conn |-> FALSE]
  /\ rst = [c \in Conn |-> FALSE]
  /\ kbuf = [c \in Conn |-> 0]
  /\ queued = [c \in Conn |-> 0]
  /\ got = [c \in Conn |-> 0]
  /\ inb = [c \in Conn |-> 0]
  /\ outb = [c \in Conn |-> 0]
  /\ dec = [c \in Conn |-> 0]
  /\ own = [f \in Fd |-> NoConn]
  /\ reg = [f \in Fd |-> NoConn]
  /\ mask = [f \in Fd |-> {}]
  /\ ready = {}
  /\ batch = [f \in AllFd |-> {}]
  /\ pc = "wait"
  /\ cur = Listen
  /\ pos = 0

-----------------------------------------------------------------------------
(***************************************************************************)
(* The peers and the network.                                              *)
(***************************************************************************)

\* A handshake completes: the connection waits in the listener's queue.
Connect(c) ==
  /\ stage[c] = "new"
  /\ stage' = [stage EXCEPT ![c] = "backlog"]
  /\ ready' = ready \cup {Listen}
  /\ UNCHANGED <<fin, rst, kbuf, queued, got, appVars, own, reg, mask, loopVars>>

Connected(c) == stage[c] \in {"backlog", "open"}

\* Units of requests that have reached the server.
Arrived(c) == kbuf[c] + inb[c] + ReqLen * dec[c]

\* One more unit of a request arrives.
Arrive(c) ==
  /\ Connected(c) /\ ~fin[c] /\ ~rst[c]
  /\ Arrived(c) < ReqLen * MaxReq
  /\ Lockstep => RspLen * (Arrived(c) \div ReqLen) <= got[c]
  /\ kbuf' = [kbuf EXCEPT ![c] = @ + 1]
  /\ ready' = ready \cup Woken(c, {"IN"})
  /\ UNCHANGED <<stage, fin, rst, queued, got, appVars, own, reg, mask, loopVars>>

\* The peer takes a unit of an answer, which frees send buffer space.
Drain(c) ==
  /\ Connected(c) /\ ~rst[c]
  /\ queued[c] > 0 /\ got[c] < MaxGot
  /\ queued' = [queued EXCEPT ![c] = @ - 1]
  /\ got' = [got EXCEPT ![c] = @ + 1]
  /\ ready' = ready \cup Woken(c, {"OUT"})
  /\ UNCHANGED <<stage, fin, rst, kbuf, appVars, own, reg, mask, loopVars>>

\* The peer closes its side: everything it sent arrives before the FIN.
Finish(c) ==
  /\ Connected(c) /\ ~fin[c] /\ ~rst[c]
  /\ fin' = [fin EXCEPT ![c] = TRUE]
  /\ ready' = ready \cup Woken(c, Events)
  /\ UNCHANGED <<stage, rst, kbuf, queued, got, appVars, own, reg, mask, loopVars>>

\* The peer resets the connection: what was queued for it is dropped.
Reset(c) ==
  /\ Connected(c) /\ ~rst[c]
  /\ rst' = [rst EXCEPT ![c] = TRUE]
  /\ queued' = [queued EXCEPT ![c] = 0]
  /\ ready' = ready \cup Woken(c, Events)
  /\ UNCHANGED <<stage, fin, kbuf, got, appVars, own, reg, mask, loopVars>>

Peer(c) == Connect(c) \/ Arrive(c) \/ Drain(c) \/ Finish(c) \/ Reset(c)

-----------------------------------------------------------------------------
(***************************************************************************)
(* Loop and Dispatcher.                                                    *)
(***************************************************************************)

\* epoll_wait hands over at most Batch descriptors and takes them off the
\* ready list: this is the edge-triggered mode.
EpollWait ==
  /\ pc = "wait" /\ ready # {}
  /\ \E S \in SUBSET ready :
       /\ S # {}
       /\ Cardinality(S) <= Batch
       /\ S = ready \/ Cardinality(S) = Batch
       /\ ready' = ready \ S
       /\ batch' = [f \in AllFd |-> IF f \in S THEN Revents(f) ELSE {}]
  /\ pc' = "dispatch"
  /\ UNCHANGED <<peerVars, appVars, own, reg, mask, cur, pos>>

\* epoll_wait returns 0 after its 3 s: Loop calls it again.
WaitTimeout ==
  /\ pc = "wait" /\ ready = {}
  /\ UNCHANGED vars

\* One iteration of Dispatcher: IN is served first, OUT only when IN is not set.
Dispatch(f) ==
  /\ pc = "dispatch" /\ batch[f] # {}
  /\ batch' = [batch EXCEPT ![f] = {}]
  /\ cur' = f
  /\ pos' = 0
  /\ pc' = IF "IN" \in batch[f] /\ IsConnectionSafe(f)
             THEN IF f = Listen THEN "accept" ELSE "recv"
             ELSE IF f # Listen /\ IsConnectionSafe(f) THEN "send" ELSE "dispatch"
  /\ UNCHANGED <<peerVars, appVars, epVars>>

DispatchDone ==
  /\ pc = "dispatch" /\ \A f \in AllFd : batch[f] = {}
  /\ pc' = "wait"
  /\ cur' = Listen
  /\ pos' = 0
  /\ UNCHANGED <<peerVars, appVars, epVars, batch>>

-----------------------------------------------------------------------------
(***************************************************************************)
(* Accepter and AddConnection.                                             *)
(***************************************************************************)

\* accept returns the lowest free descriptor.
AcceptOne(c, f) ==
  /\ pc = "accept"
  /\ c \in Backlog
  /\ f \in Free /\ \A g \in Free : f <= g
  /\ stage' = [stage EXCEPT ![c] = "open"]
  /\ own' = [own EXCEPT ![f] = c]
  /\ cur' = f
  /\ pc' = "add"
  /\ UNCHANGED <<fin, rst, kbuf, queued, got, appVars, reg, mask, ready, batch, pos>>

\* Mutant: EPOLLOUT is watched from the start.
AddConnectionWatchingOut ==
  /\ pc = "add"
  /\ mask' = [mask EXCEPT ![cur] = Events]
  /\ ready' = ready \cup {cur}
  /\ reg' = [reg EXCEPT ![cur] = own[cur]]
  /\ cur' = Listen
  /\ pc' = "accept"
  /\ UNCHANGED <<peerVars, appVars, own, batch, pos>>

\* Mutant: Accepter takes one connection per event instead of looping.
AddConnectionOnce ==
  /\ pc = "add"
  /\ mask' = [mask EXCEPT ![cur] = {"IN"}]
  /\ ready' = IF Readable(own[cur]) THEN ready \cup {cur} ELSE ready
  /\ reg' = [reg EXCEPT ![cur] = own[cur]]
  /\ cur' = Listen
  /\ pc' = "dispatch"
  /\ UNCHANGED <<peerVars, appVars, own, batch, pos>>

\* AddConnection: EPOLL_CTL_ADD looks at the socket before it returns, so what
\* arrived since accept is not missed; then connections_ gets its entry.
AddConnection ==
  /\ pc = "add"
  /\ mask' = [mask EXCEPT ![cur] = {"IN"}]
  /\ ready' = IF Readable(own[cur]) THEN ready \cup {cur} ELSE ready
  /\ reg' = [reg EXCEPT ![cur] = own[cur]]
  /\ cur' = Listen
  /\ pc' = "accept"
  /\ UNCHANGED <<peerVars, appVars, own, batch, pos>>

\* EWOULDBLOCK: the queue is empty.
AcceptAgain ==
  /\ pc = "accept" /\ Backlog = {}
  /\ pc' = "dispatch"
  /\ UNCHANGED <<peerVars, appVars, epVars, batch, cur, pos>>

\* Mutant: with no descriptor left, the lowest connection is closed to make room.
AcceptErrorEvicts ==
  /\ pc = "accept" /\ Backlog # {} /\ Free = {}
  /\ own' = [own EXCEPT ![1] = NoConn]
  /\ reg' = [reg EXCEPT ![1] = NoConn]
  /\ mask' = [mask EXCEPT ![1] = {}]
  /\ stage' = [stage EXCEPT ![own[1]] = "closed"]
  /\ ready' = ready \ {1}
  /\ UNCHANGED <<fin, rst, kbuf, queued, got, appVars, loopVars>>

\* Any other error ends the loop too; here EMFILE, no descriptor is left.
AcceptError ==
  /\ pc = "accept" /\ Backlog # {} /\ Free = {}
  /\ pc' = "dispatch"
  /\ UNCHANGED <<peerVars, appVars, epVars, batch, cur, pos>>

-----------------------------------------------------------------------------
(***************************************************************************)
(* Recver and AppRead.                                                     *)
(***************************************************************************)

\* Mutant: Recver reads once per event instead of looping.
RecvDataOnce ==
  /\ pc = "recv" /\ kbuf[own[cur]] > 0
  /\ inb' = [inb EXCEPT ![own[cur]] = @ + kbuf[own[cur]]]
  /\ kbuf' = [kbuf EXCEPT ![own[cur]] = 0]
  /\ pc' = "app"
  /\ UNCHANGED <<stage, fin, rst, queued, got, outb, dec, epVars, batch, cur, pos>>

\* recv returns data, which goes to inbuffer_; the loop goes on.
RecvData ==
  /\ pc = "recv" /\ kbuf[own[cur]] > 0
  /\ inb' = [inb EXCEPT ![own[cur]] = @ + kbuf[own[cur]]]
  /\ kbuf' = [kbuf EXCEPT ![own[cur]] = 0]
  /\ UNCHANGED <<stage, fin, rst, queued, got, outb, dec, epVars, loopVars>>

\* Mutant: EWOULDBLOCK is taken for an error.
RecvAgainIsError ==
  /\ pc = "recv" /\ ~Readable(own[cur])
  /\ pc' = "except"
  /\ UNCHANGED <<peerVars, appVars, epVars, batch, cur, pos>>

\* EWOULDBLOCK: everything has been read; the application is called.
RecvAgain ==
  /\ pc = "recv" /\ ~Readable(own[cur])
  /\ pc' = "app"
  /\ UNCHANGED <<peerVars, appVars, epVars, batch, cur, pos>>

\* recv returns 0 or fails: except_cb_, and nothing more of this connection.
RecvClosed ==
  /\ pc = "recv" /\ kbuf[own[cur]] = 0 /\ Readable(own[cur])
  /\ pc' = "except"
  /\ UNCHANGED <<peerVars, appVars, epVars, batch, cur, pos>>

\* Mutant: Decode forgets to compare the length with what is there.
AppReadUnchecked ==
  /\ pc = "app" /\ inb[own[cur]] > 0
  /\ inb' = [inb EXCEPT ![own[cur]] = @ - ReqLen]
  /\ dec' = [dec EXCEPT ![own[cur]] = @ + 1]
  /\ outb' = [outb EXCEPT ![own[cur]] = @ + RspLen]
  /\ pos' = 0
  /\ pc' = "send"
  /\ UNCHANGED <<peerVars, epVars, batch, cur>>

\* AppRead with a complete request at the head of inbuffer_: ONE request is
\* decoded, its answer goes to outbuffer_ and Writer is called.
AppRead ==
  /\ pc = "app" /\ inb[own[cur]] >= ReqLen
  /\ inb' = [inb EXCEPT ![own[cur]] = @ - ReqLen]
  /\ dec' = [dec EXCEPT ![own[cur]] = @ + 1]
  /\ outb' = [outb EXCEPT ![own[cur]] = @ + RspLen]
  /\ pos' = 0
  /\ pc' = "send"
  /\ UNCHANGED <<peerVars, epVars, batch, cur>>

\* AppRead with no complete request: Handler returns "".
AppReadIncomplete ==
  /\ pc = "app" /\ inb[own[cur]] < ReqLen
  /\ pc' = "dispatch"
  /\ UNCHANGED <<peerVars, appVars, epVars, batch, cur, pos>>

-----------------------------------------------------------------------------
(***************************************************************************)
(* Writer, ModEpollEvent and Excepter.                                     *)
(***************************************************************************)

\* send takes what fits; Writer erases it from its COPY of outbuffer_ and goes
\* on until the copy is empty.
SendSome ==
  LET c == own[cur]
      n == Smaller(SndBuf - queued[c], outb[c] - pos)
  IN /\ pc = "send" /\ ~rst[c] /\ queued[c] < SndBuf
     /\ queued' = [queued EXCEPT ![c] = @ + n]
     /\ pos' = pos + n
     /\ pc' = IF pos + n = outb[c] THEN "mod" ELSE "send"
     /\ UNCHANGED <<stage, fin, rst, kbuf, got, appVars, epVars, batch, cur>>

\* EWOULDBLOCK: the send buffer is full.
SendAgain ==
  /\ pc = "send" /\ ~rst[own[cur]] /\ queued[own[cur]] = SndBuf
  /\ pc' = "mod"
  /\ UNCHANGED <<peerVars, appVars, epVars, batch, cur, pos>>

\* Any other error: the test assigns errno, so it is taken for EWOULDBLOCK.
SendError ==
  /\ pc = "send" /\ rst[own[cur]] /\ ~fin[own[cur]]
  /\ pc' = "mod"
  /\ UNCHANGED <<peerVars, appVars, epVars, batch, cur, pos>>

\* A reset after the peer's FIN makes send raise SIGPIPE, which the server
\* does not ignore: the process ends.
SendSigPipe ==
  /\ pc = "send" /\ rst[own[cur]] /\ fin[own[cur]]
  /\ pc' = "dead"
  /\ UNCHANGED <<peerVars, appVars, epVars, batch, cur, pos>>

\* EPOLL_CTL_MOD: EPOLLOUT is watched while the copy is not empty; the kernel
\* looks at the socket again under the new mask.
ModEpollEvent ==
  LET c == own[cur]
      m == IF pos < outb[c] THEN Events ELSE {"IN"}
  IN /\ pc = "mod"
     /\ mask' = [mask EXCEPT ![cur] = m]
     /\ ready' = IF m \cap PollOf(c) # {} THEN ready \cup {cur} ELSE ready
     /\ pc' = "dispatch"
     /\ UNCHANGED <<peerVars, appVars, own, reg, batch, cur, pos>>

\* Mutant: connections_.erase is forgotten.
ExcepterKeepsEntry ==
  LET c == own[cur]
  IN /\ pc = "except"
     /\ mask' = [mask EXCEPT ![cur] = {}]
     /\ ready' = ready \ {cur}
     /\ own' = [own EXCEPT ![cur] = NoConn]
     /\ stage' = [stage EXCEPT ![c] = "closed"]
     /\ pc' = "dispatch"
     /\ UNCHANGED <<fin, rst, kbuf, queued, got, appVars, reg, batch, cur, pos>>

\* Mutant: Recver goes on to the application after except_cb_.
ExcepterThenApp ==
  LET c == own[cur]
  IN /\ pc = "except"
     /\ mask' = [mask EXCEPT ![cur] = {}]
     /\ ready' = ready \ {cur}
     /\ own' = [own EXCEPT ![cur] = NoConn]
     /\ reg' = [reg EXCEPT ![cur] = NoConn]
     /\ stage' = [stage EXCEPT ![c] = "closed"]
     /\ pc' = "app"
     /\ UNCHANGED <<fin, rst, kbuf, queued, got, appVars, batch, cur, pos>>

\* Excepter: out of epoll, close, out of connections_; the Connection goes
\* with its buffers.
Excepter ==
  LET c == own[cur]
  IN /\ pc = "except"
     /\ mask' = [mask EXCEPT ![cur] = {}]
     /\ ready' = ready \ {cur}
     /\ own' = [own EXCEPT ![cur] = NoConn]
     /\ reg' = [reg EXCEPT ![cur] = NoConn]
     /\ stage' = [stage EXCEPT ![c] = "closed"]
     /\ kbuf' = [kbuf EXCEPT ![c] = 0]
     /\ queued' = [queued EXCEPT ![c] = 0]
     /\ inb' = [inb EXCEPT ![c] = 0]
     /\ outb' = [outb EXCEPT ![c] = 0]
     /\ pc' = "dispatch"
     /\ UNCHANGED <<fin, rst, got, dec, batch, cur, pos>>

-----------------------------------------------------------------------------

Accepter == \/ \E c \in Conn, f \in Fd : AcceptOne(c, f)
            \/ AddConnection \/ AcceptAgain \/ AcceptError

Recver == RecvData \/ RecvAgain \/ RecvClosed \/ AppRead \/ AppReadIncomplete

Writer == SendSome \/ SendAgain \/ SendError \/ SendSigPipe \/ ModEpollEvent

\* One step of the server's thread.
Server == \/ EpollWait \/ DispatchDone
          \/ \E f \in AllFd : Dispatch(f)
          \/ Accepter \/ Recver \/ Writer \/ Excepter

\* The process has been killed; the peers may still talk to its sockets.
Dead == pc = "dead" /\ UNCHANGED vars

Next == Server \/ WaitTimeout \/ Dead \/ \E c \in Conn : Peer(c)

Spec == Init /\ [][Next]_vars

\* The server's thread is scheduled; the peers promise nothing.
FairSpec == Spec /\ WF_vars(Server)

-----------------------------------------------------------------------------
(***************************************************************************)
(* Properties.                                                             *)
(***************************************************************************)

TypeOK ==
  /\ stage \in [Conn -> Stages]
  /\ fin \in [Conn -> BOOLEAN] /\ rst \in [Conn -> BOOLEAN]
  /\ kbuf \in [Conn -> Nat] /\ queued \in [Conn -> 0 .. SndBuf]
  /\ got \in [Conn -> Nat]
  /\ inb \in [Conn -> Nat] /\ outb \in [Conn -> Nat] /\ dec \in [Conn -> Nat]
  /\ own \in [Fd -> Conn \cup {NoConn}] /\ reg \in [Fd -> Conn \cup {NoConn}]
  /\ mask \in [Fd -> SUBSET Events]
  /\ ready \in SUBSET AllFd
  /\ batch \in [AllFd -> SUBSET Events]
  /\ pc \in Places /\ cur \in AllFd /\ pos \in Nat

\* The three tables of a descriptor agree: the kernel's descriptor table,
\* epoll's interest list and connections_ name the same connection, reading is
\* watched all the time, no two descriptors share a connection, and it is open
\* exactly while it has one.
\* Only AddConnection, between accept and EPOLL_CTL_ADD, is in between.
TablesAgree ==
  /\ \A f \in Fd : ~(pc = "add" /\ f = cur) =>
       /\ reg[f] = own[f]
       /\ own[f] = NoConn => mask[f] = {}
       /\ own[f] # NoConn => "IN" \in mask[f]
  /\ \A f, g \in Fd : own[f] = own[g] /\ own[f] # NoConn => f = g
  /\ \A c \in Conn : stage[c] = "open" <=> \E f \in Fd : own[f] = c

\* Edge-triggered reading loses nothing: a connection with unread data, an
\* end of file or an error is on the ready list, is in the batch being
\* dispatched as readable, or is the one the thread is at work on.
NoLostRead ==
  \A f \in Fd :
    own[f] # NoConn /\ Readable(own[f]) =>
      \/ f \in ready
      \/ "IN" \in batch[f]
      \/ cur = f /\ pc \in {"add", "recv", "except"}

\* Writer never calls send with nothing to send: EPOLLOUT is only watched and
\* Writer only entered while outbuffer_ holds something.
SendsSomething ==
  /\ pc = "send" => pos < outb[own[cur]]
  /\ \A f \in Fd : "OUT" \in mask[f] => outb[own[f]] > 0

\* No handler runs on a connection that is gone: while one is at work its
\* descriptor is open, its event has left the batch, and every event that
\* waits in the batch is one of an open descriptor; Excepter is only reached
\* with the stream at its end.
HandlersHaveAConnection ==
  /\ pc \in {"add", "recv", "app", "send", "mod", "except"} =>
       cur \in Fd /\ own[cur] # NoConn /\ batch[cur] = {}
  /\ pc = "add" => mask[cur] = {} /\ reg[cur] = NoConn
  /\ pc = "mod" => pos <= outb[own[cur]]
  /\ pc = "except" => fin[own[cur]] \/ rst[own[cur]]
  /\ pc = "wait" => \A f \in AllFd : batch[f] = {}
  /\ \A f \in Fd : /\ batch[f] # {} => own[f] # NoConn
                   /\ "OUT" \in batch[f] => outb[own[f]] > 0

\* A reported event is dispatched to the connection it was reported for: a
\* descriptor is not closed, nor handed out again, while its event waits.
EventsStayFresh ==
  [][\A f \in Fd : batch[f] # {} /\ batch'[f] # {} =>
       own'[f] = own[f] /\ own[f] # NoConn]_vars

\* The server closes a connection only after the peer closed or reset it.
ClosesOnlyDeadPeers ==
  [][\A c \in Conn : stage[c] = "open" /\ stage'[c] = "closed" =>
       fin[c] \/ rst[c]]_vars

\* A peer that closes or resets is eventually noticed, its descriptor closed
\* and its entry erased (unless the process is killed by SIGPIPE).
CloseIsNoticed ==
  \A c \in Conn : (stage[c] # "new" /\ (fin[c] \/ rst[c])) ~>
                    (stage[c] = "closed" \/ pc = "dead")

\* A peer that asks one question at a time gets every request decoded, however
\* its bytes are cut up on the way (or it went away first).
EveryRequestDecoded ==
  \A c \in Conn : \A k \in 1 .. MaxReq :
    (Arrived(c) >= ReqLen * k) ~>
      (dec[c] >= k \/ fin[c] \/ rst[c] \/ pc = "dead")

-----------------------------------------------------------------------------
(***************************************************************************)
(* What the comments promise and the code does not keep.                   *)
(***************************************************************************)

\* "The data of this buffer is to be sent out" and "empty: no interest any
\* more": a peer is never sent more than the answers made for it.
AnswersSentOnce == \A c \in Conn : stage[c] = "open" => got[c] + queued[c] <= outb[c]

\* "The message may be one, half, or several packets": when the thread goes
\* back to wait with no event pending, no complete request is left undecoded.
NoRequestLeftBehind ==
  \A f \in Fd : pc = "wait" /\ own[f] # NoConn /\ f \notin ready =>
    inb[own[f]] < ReqLen

\* "Not empty: watch for writing": when there is room again for what Writer
\* could not send, an event for it is pending.
LeftoverIsPending ==
  \A f \in Fd : pc = "wait" /\ "OUT" \in mask[f] /\ Writable(own[f]) => f \in ready
=============================================================================
