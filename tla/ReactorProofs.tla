--------------------------- MODULE ReactorProofs ---------------------------
(***************************************************************************)
(* Safety of the reactor for any number of peers and descriptors, any      *)
(* batch length, buffer size and message length.                           *)
(*                                                                         *)
(* The inductive invariant IInv is the conjunction of the invariants the   *)
(* runs check: none of them is inductive alone.  NoLostRead needs          *)
(* TablesAgree (a wakeup reaches a descriptor through epoll's interest     *)
(* list) and HandlersHaveAConnection (a handler owns its descriptor's      *)
(* event), TablesAgree needs HandlersHaveAConnection (Excepter erases the  *)
(* entry of an open descriptor), SendsSomething needs both.                *)
(***************************************************************************)
EXTENDS Reactor, TLAPS

IInv == /\ TypeOK
        /\ TablesAgree
        /\ NoLostRead
        /\ SendsSomething
        /\ HandlersHaveAConnection

\* The listening socket's descriptor is none of the clients' descriptors.
LEMMA DescriptorFacts ==
  /\ Fd \subseteq AllFd
  /\ Listen \in AllFd
  /\ Listen \notin Fd
  /\ \A f \in AllFd : f = Listen \/ f \in Fd
  BY DEF Fd, AllFd, Listen

\* The server starts with no client, empty tables and an empty ready list.
LEMMA InitIInv == Init => IInv
  BY ReactorAssumption, DescriptorFacts
  DEF Init, IInv, TypeOK, TablesAgree, NoLostRead, SendsSomething,
      HandlersHaveAConnection, Stages, Places

\* The invariant survives any step of a peer or of the network.
LEMMA PeerKeepsIInv ==
  ASSUME IInv, NEW c \in Conn, Peer(c)
  PROVE  IInv'
  <1> USE ReactorAssumption, DescriptorFacts DEF IInv
  <1>1. ASSUME Connect(c)
        PROVE  IInv'
    BY <1>1
    DEF Connect, TypeOK, TablesAgree, NoLostRead, SendsSomething,
        HandlersHaveAConnection, Readable, appVars, loopVars, Stages
  <1>2. ASSUME Arrive(c)
        PROVE  IInv'
    BY <1>2
    DEF Arrive, Woken, TypeOK, TablesAgree, NoLostRead, SendsSomething,
        HandlersHaveAConnection, Readable, appVars, loopVars
  <1>3. ASSUME Drain(c)
        PROVE  IInv'
    BY <1>3
    DEF Drain, Woken, TypeOK, TablesAgree, NoLostRead, SendsSomething,
        HandlersHaveAConnection, Readable, appVars, loopVars
  <1>4. ASSUME Finish(c)
        PROVE  IInv'
    BY <1>4
    DEF Finish, Woken, TypeOK, TablesAgree, NoLostRead, SendsSomething,
        HandlersHaveAConnection, Readable, appVars, loopVars
  <1>5. ASSUME Reset(c)
        PROVE  IInv'
    BY <1>5
    DEF Reset, Woken, TypeOK, TablesAgree, NoLostRead, SendsSomething,
        HandlersHaveAConnection, Readable, appVars, loopVars
  <1> QED
    BY <1>1, <1>2, <1>3, <1>4, <1>5 DEF Peer

\* The invariant survives Loop and Dispatcher.
LEMMA LoopKeepsIInv ==
  ASSUME IInv, EpollWait \/ DispatchDone \/ \E f \in AllFd : Dispatch(f)
  PROVE  IInv'
  <1> USE ReactorAssumption, DescriptorFacts DEF IInv
  <1>1. ASSUME EpollWait
        PROVE  IInv'
    <2>1. TypeOK'
      BY <1>1
      DEF EpollWait, Revents, TypeOK, Events, peerVars, appVars, Places
    <2>2. TablesAgree'
      BY <1>1 DEF EpollWait, TablesAgree, peerVars
    <2>3. NoLostRead'
      BY <1>1
      DEF EpollWait, Revents, PollOf, TypeOK, TablesAgree, NoLostRead,
          HandlersHaveAConnection, Readable, peerVars
    <2>4. SendsSomething'
      BY <1>1 DEF EpollWait, SendsSomething, appVars
    <2>5. HandlersHaveAConnection'
      BY <1>1
      DEF EpollWait, Revents, TablesAgree, SendsSomething,
          HandlersHaveAConnection, appVars
    <2> QED
      BY <2>1, <2>2, <2>3, <2>4, <2>5
  <1>2. ASSUME NEW f \in AllFd, Dispatch(f)
        PROVE  IInv'
    BY <1>2
    DEF Dispatch, IsConnectionSafe, TypeOK, TablesAgree, NoLostRead,
        SendsSomething, HandlersHaveAConnection, Readable, Events, peerVars,
        appVars, epVars, Places
  <1>3. ASSUME DispatchDone
        PROVE  IInv'
    BY <1>3
    DEF DispatchDone, TypeOK, TablesAgree, NoLostRead, SendsSomething,
        HandlersHaveAConnection, Readable, peerVars, appVars, epVars, Places
  <1> QED
    BY <1>1, <1>2, <1>3

\* The invariant survives Accepter and AddConnection.
LEMMA AccepterKeepsIInv ==
  ASSUME IInv, Accepter
  PROVE  IInv'
  <1> USE ReactorAssumption, DescriptorFacts DEF IInv
  <1>1. ASSUME NEW c \in Conn, NEW f \in Fd, AcceptOne(c, f)
        PROVE  IInv'
    <2>1. TypeOK'
      BY <1>1 DEF AcceptOne, TypeOK, appVars, Stages, Places
    <2>2. TablesAgree'
      BY <1>1 DEF AcceptOne, Backlog, Free, TypeOK, TablesAgree
    <2>3. NoLostRead'
      BY <1>1 DEF AcceptOne, NoLostRead, Readable
    <2>4. SendsSomething'
      BY <1>1 DEF AcceptOne, Free, TablesAgree, SendsSomething, appVars
    <2>5. HandlersHaveAConnection'
      BY <1>1
      DEF AcceptOne, Free, TypeOK, TablesAgree, HandlersHaveAConnection,
          appVars
    <2> QED
      BY <2>1, <2>2, <2>3, <2>4, <2>5
  <1>2. ASSUME AddConnection
        PROVE  IInv'
    <2>1. TypeOK'
      BY <1>2
      DEF AddConnection, TypeOK, HandlersHaveAConnection, Events, peerVars,
          appVars, Places
    <2>2. TablesAgree'
      BY <1>2
      DEF AddConnection, TypeOK, TablesAgree, HandlersHaveAConnection,
          peerVars
    <2>3. NoLostRead'
      BY <1>2 DEF AddConnection, NoLostRead, Readable, peerVars
    <2>4. SendsSomething'
      BY <1>2 DEF AddConnection, SendsSomething, appVars
    <2>5. HandlersHaveAConnection'
      BY <1>2 DEF AddConnection, HandlersHaveAConnection, appVars
    <2> QED
      BY <2>1, <2>2, <2>3, <2>4, <2>5
  <1>3. ASSUME AcceptAgain
        PROVE  IInv'
    BY <1>3
    DEF AcceptAgain, TypeOK, TablesAgree, NoLostRead, SendsSomething,
        HandlersHaveAConnection, Readable, peerVars, appVars, epVars, Places
  <1>4. ASSUME AcceptError
        PROVE  IInv'
    BY <1>4
    DEF AcceptError, TypeOK, TablesAgree, NoLostRead, SendsSomething,
        HandlersHaveAConnection, Readable, peerVars, appVars, epVars, Places
  <1> QED
    BY <1>1, <1>2, <1>3, <1>4 DEF Accepter

\* The invariant survives Recver and the application it calls.
LEMMA RecverKeepsIInv ==
  ASSUME IInv, Recver
  PROVE  IInv'
  <1> USE ReactorAssumption, DescriptorFacts DEF IInv
  <1>1. ASSUME RecvData
        PROVE  IInv'
    BY <1>1
    DEF RecvData, TypeOK, TablesAgree, NoLostRead, SendsSomething,
        HandlersHaveAConnection, Readable, epVars, loopVars
  <1>2. ASSUME RecvAgain
        PROVE  IInv'
    BY <1>2
    DEF RecvAgain, TypeOK, TablesAgree, NoLostRead, SendsSomething,
        HandlersHaveAConnection, Readable, peerVars, appVars, epVars, Places
  <1>3. ASSUME RecvClosed
        PROVE  IInv'
    BY <1>3
    DEF RecvClosed, TypeOK, TablesAgree, NoLostRead, SendsSomething,
        HandlersHaveAConnection, Readable, peerVars, appVars, epVars, Places
  <1>4. ASSUME AppRead
        PROVE  IInv'
    <2>1. TypeOK'
      BY <1>4
      DEF AppRead, TypeOK, HandlersHaveAConnection, peerVars, epVars, Places
    <2>2. TablesAgree'
      BY <1>4 DEF AppRead, TablesAgree, peerVars, epVars
    <2>3. NoLostRead'
      BY <1>4 DEF AppRead, NoLostRead, Readable, peerVars, epVars
    <2>4. SendsSomething'
      BY <1>4
      DEF AppRead, TypeOK, SendsSomething, HandlersHaveAConnection, Events,
          epVars, Places
    <2>5. HandlersHaveAConnection'
      BY <1>4 DEF AppRead, TypeOK, HandlersHaveAConnection, epVars
    <2> QED
      BY <2>1, <2>2, <2>3, <2>4, <2>5
  <1>5. ASSUME AppReadIncomplete
        PROVE  IInv'
    BY <1>5
    DEF AppReadIncomplete, TypeOK, TablesAgree, NoLostRead, SendsSomething,
        HandlersHaveAConnection, Readable, peerVars, appVars, epVars, Places
  <1> QED
    BY <1>1, <1>2, <1>3, <1>4, <1>5 DEF Recver

\* The invariant survives Writer and ModEpollEvent.
LEMMA WriterKeepsIInv ==
  ASSUME IInv, Writer
  PROVE  IInv'
  <1> USE ReactorAssumption, DescriptorFacts DEF IInv
  <1>1. ASSUME SendSome
        PROVE  IInv'
    BY <1>1
    DEF SendSome, Smaller, TypeOK, TablesAgree, NoLostRead, SendsSomething,
        HandlersHaveAConnection, Readable, appVars, epVars, Places
  <1>2. ASSUME SendAgain
        PROVE  IInv'
    BY <1>2
    DEF SendAgain, TypeOK, TablesAgree, NoLostRead, SendsSomething,
        HandlersHaveAConnection, Readable, peerVars, appVars, epVars, Places
  <1>3. ASSUME SendError
        PROVE  IInv'
    BY <1>3
    DEF SendError, TypeOK, TablesAgree, NoLostRead, SendsSomething,
        HandlersHaveAConnection, Readable, peerVars, appVars, epVars, Places
  <1>4. ASSUME SendSigPipe
        PROVE  IInv'
    BY <1>4
    DEF SendSigPipe, TypeOK, TablesAgree, NoLostRead, SendsSomething,
        HandlersHaveAConnection, Readable, peerVars, appVars, epVars, Places
  <1>5. ASSUME ModEpollEvent
        PROVE  IInv'
    <2> DEFINE m == IF pos < outb[own[cur]] THEN Events ELSE {"IN"}
    <2>1. "IN" \in m /\ m \in SUBSET Events /\ ("OUT" \in m => pos < outb[own[cur]])
      BY DEF Events
    <2>2. mask' = [mask EXCEPT ![cur] = m]
      BY <1>5 DEF ModEpollEvent
    <2>3. ready \subseteq ready' /\ (Readable(own[cur]) => cur \in ready')
      BY <1>5, <2>1 DEF ModEpollEvent, PollOf
    <2>4. ready' \in SUBSET AllFd
      BY <1>5 DEF ModEpollEvent, TypeOK
    <2> HIDE DEF m
    <2>5. TypeOK'
      BY <1>5, <2>1 DEF ModEpollEvent, TypeOK, Places, peerVars, appVars
    <2>6. TablesAgree'
      BY <1>5, <2>1, <2>2, <2>3, <2>4
      DEF ModEpollEvent, TablesAgree, HandlersHaveAConnection, peerVars
    <2>7. NoLostRead'
      BY <1>5, <2>1, <2>2, <2>3, <2>4
      DEF ModEpollEvent, NoLostRead, Readable, peerVars
    <2>8. SendsSomething'
      BY <1>5, <2>1, <2>2, <2>3, <2>4
      DEF ModEpollEvent, TypeOK, SendsSomething, HandlersHaveAConnection,
          appVars
    <2>9. HandlersHaveAConnection'
      BY <1>5, <2>1, <2>2, <2>3, <2>4
      DEF ModEpollEvent, HandlersHaveAConnection, appVars
    <2> QED
      BY <2>5, <2>6, <2>7, <2>8, <2>9
  <1> QED
    BY <1>1, <1>2, <1>3, <1>4, <1>5 DEF Writer

\* The invariant survives Excepter.
LEMMA ExcepterKeepsIInv ==
  ASSUME IInv, Excepter
  PROVE  IInv'
  <1> USE ReactorAssumption, DescriptorFacts DEF IInv
  <1>1. TypeOK'
    BY DEF Excepter, TypeOK, HandlersHaveAConnection, Stages, Places
  <1>2. TablesAgree'
    BY DEF Excepter, TypeOK, TablesAgree, HandlersHaveAConnection
  <1>3. NoLostRead'
    BY DEF Excepter, TypeOK, NoLostRead, Readable
  <1>4. SendsSomething'
    BY DEF Excepter, TypeOK, TablesAgree, SendsSomething,
           HandlersHaveAConnection
  <1>5. HandlersHaveAConnection'
    BY DEF Excepter, TablesAgree, HandlersHaveAConnection
  <1> QED
    BY <1>1, <1>2, <1>3, <1>4, <1>5

\* IInv is inductive.
LEMMA NextKeepsIInv == IInv /\ [Next]_vars => IInv'
  <1> SUFFICES ASSUME IInv, [Next]_vars
               PROVE  IInv'
    OBVIOUS
  <1>1. ASSUME NEW c \in Conn, Peer(c)
        PROVE  IInv'
    BY <1>1, PeerKeepsIInv
  <1>2. CASE Server
    BY <1>2, LoopKeepsIInv, AccepterKeepsIInv, RecverKeepsIInv,
       WriterKeepsIInv, ExcepterKeepsIInv
    DEF Server
  <1>3. CASE UNCHANGED vars
    BY <1>3
    DEF IInv, TypeOK, TablesAgree, NoLostRead, SendsSomething,
        HandlersHaveAConnection, Readable, peerVars, appVars, epVars,
        loopVars, vars
  <1> QED
    BY <1>1, <1>2, <1>3 DEF Next, WaitTimeout, Dead

\* IInv holds in every reachable state.
THEOREM ReactorInvariant == Spec => []IInv
  <1> QED
    BY InitIInv, NextKeepsIInv, PTL DEF Spec

\* Every variable keeps its type: in particular the send buffer never holds
\* more than SndBuf and no byte counter of a Connection goes below zero.
THEOREM ReactorTypeCorrect == Spec => []TypeOK
  <1>1. IInv => TypeOK
    BY DEF IInv
  <1> QED
    BY <1>1, ReactorInvariant, PTL

\* The descriptor table, epoll's interest list and connections_ always agree.
THEOREM ReactorTablesAgree == Spec => []TablesAgree
  <1>1. IInv => TablesAgree
    BY DEF IInv
  <1> QED
    BY <1>1, ReactorInvariant, PTL

\* No readable edge is ever lost, whatever arrives between which system calls.
THEOREM ReactorNoLostRead == Spec => []NoLostRead
  <1>1. IInv => NoLostRead
    BY DEF IInv
  <1> QED
    BY <1>1, ReactorInvariant, PTL

\* Writer never calls send with an empty buffer, so its n == 0 branch is dead.
THEOREM ReactorSendsSomething == Spec => []SendsSomething
  <1>1. IInv => SendsSomething
    BY DEF IInv
  <1> QED
    BY <1>1, ReactorInvariant, PTL

\* No handler runs on a closed connection.
THEOREM ReactorHandlersHaveAConnection == Spec => []HandlersHaveAConnection
  <1>1. IInv => HandlersHaveAConnection
    BY DEF IInv
  <1> QED
    BY <1>1, ReactorInvariant, PTL

\* An event waiting in the batch is never dispatched to another connection
\* than the one it was reported for.
THEOREM ReactorEventsStayFresh == Spec => EventsStayFresh
  <1> DEFINE Fresh == \A f \in Fd : batch[f] # {} /\ batch'[f] # {} =>
                        own'[f] = own[f] /\ own[f] # NoConn
  <1>1. ASSUME IInv, [Next]_vars
        PROVE  Fresh
    <2>1. \A f \in Fd : batch[f] # {} => own[f] # NoConn
      BY <1>1 DEF IInv, HandlersHaveAConnection
    <2>2. ASSUME NEW c \in Conn, NEW f \in Fd, AcceptOne(c, f)
          PROVE  Fresh
      BY <2>1, <2>2 DEF AcceptOne, Free
    <2>3. CASE Excepter
      BY <1>1, <2>3 DEF Excepter, IInv, HandlersHaveAConnection
    <2>4. CASE own' = own
      BY <2>1, <2>4
    <2>5. (\E c \in Conn, f \in Fd : AcceptOne(c, f)) \/ Excepter \/ own' = own
      BY <1>1
      DEF Next, Server, Accepter, Recver, Writer, Peer, WaitTimeout, Dead,
          Connect, Arrive, Drain, Finish, Reset, EpollWait, Dispatch,
          DispatchDone, AddConnection, AcceptAgain, AcceptError, RecvData,
          RecvAgain, RecvClosed, AppRead, AppReadIncomplete, SendSome,
          SendAgain, SendError, SendSigPipe, ModEpollEvent, epVars, vars
    <2> QED
      BY <2>2, <2>3, <2>4, <2>5
  <1> QED
    BY <1>1, ReactorInvariant, PTL DEF EventsStayFresh, Spec

\* Only connections whose peer is gone are closed.
THEOREM ReactorClosesOnlyDeadPeers == Spec => ClosesOnlyDeadPeers
  <1> DEFINE Closing == \A c \in Conn : stage[c] = "open" /\ stage'[c] = "closed" =>
                          fin[c] \/ rst[c]
  <1>1. ASSUME IInv, [Next]_vars
        PROVE  Closing
    <2>1. CASE Excepter
      BY <1>1, <2>1 DEF Excepter, IInv, HandlersHaveAConnection
    <2>2. ASSUME NEW c \in Conn, NEW f \in Fd, AcceptOne(c, f)
          PROVE  Closing
      BY <2>2 DEF AcceptOne
    <2>3. ASSUME NEW c \in Conn, Connect(c)
          PROVE  Closing
      BY <2>3 DEF Connect
    <2>4. CASE stage' = stage
      BY <2>4
    <2>5. \/ Excepter
          \/ \E c \in Conn, f \in Fd : AcceptOne(c, f)
          \/ \E c \in Conn : Connect(c)
          \/ stage' = stage
      BY <1>1
      DEF Next, Server, Accepter, Recver, Writer, Peer, WaitTimeout, Dead,
          Arrive, Drain, Finish, Reset, EpollWait, Dispatch, DispatchDone,
          AddConnection, AcceptAgain, AcceptError, RecvData, RecvAgain,
          RecvClosed, AppRead, AppReadIncomplete, SendSome, SendAgain,
          SendError, SendSigPipe, ModEpollEvent, peerVars, vars
    <2> QED
      BY <2>1, <2>2, <2>3, <2>4, <2>5
  <1> QED
    BY <1>1, ReactorInvariant, PTL DEF ClosesOnlyDeadPeers, Spec
=============================================================================
