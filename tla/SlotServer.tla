----------------------------- MODULE SlotServer -----------------------------
(***************************************************************************)
(* The three single-threaded multiplexing servers of Net/Multiplexing,     *)
(* which accept and read: SelectServer and PollServer with a table of      *)
(* slots, EpollServer with the kernel's interest list.  Every descriptor   *)
(* is blocking, so that one read too many stops the server for everybody.  *)
(***************************************************************************)
EXTENDS Integers, Sequences

CONSTANTS
  Kinds,       \* the servers: a subset of {"select", "poll", "epoll"}
  Clients,
  Slots,       \* fd_num_max
  Listener,    \* the listening descriptor
  Fds,         \* Fds[k]: the other descriptors that server k may open
  Alias,       \* the descriptor whose bit FD_ISSET(-1) tests: 63 in the C library
  Backlog,     \* connections the kernel keeps for accept
  MaxData      \* bound: the messages a client sends

\* What the proofs need of the constants: descriptors and slots are numbers, and no
\* descriptor that is handed out is the listener's.
SlotConstants ==
  /\ Kinds \subseteq {"select", "poll", "epoll"}
  /\ Slots \in Nat \ {0} /\ MaxData \in Nat
  /\ Listener \in Nat /\ \A k \in Kinds : Fds[k] \subseteq Nat \ {Listener}

Free == -1     \* defaultfd

VARIABLES
  kind,        \* the server that runs
  pc,          \* "wait", "dispatch", "blocked" in a call for good, or "stopped"
  slots,       \* fds_: slots[i] is a descriptor or Free
  interest,    \* the epoll instance's list
  report,      \* what the last wait returned: descriptors, or slots of the table
  at,          \* the traversal's index
  open,        \* open[fd]: the client behind fd, as a set of at most one
  backlog,     \* clients that wait for accept
  peer         \* peer[c]: [pc, data, sent], data unread in the kernel

vars == <<kind, pc, slots, interest, report, at, open, backlog, peer>>

\* Run up to its loop: the listener has slot 0, or is the first in the list.
Init ==
  /\ kind \in Kinds
  /\ pc = "wait" /\ at = 0 /\ backlog = <<>> /\ report = {}
  /\ slots = [i \in 0 .. Slots - 1 |-> IF i = 0 THEN Listener ELSE Free]
  /\ interest = {Listener}
  /\ open = [fd \in Fds[kind] |-> {}]
  /\ peer = [c \in Clients |-> [pc |-> "new", data |-> 0, sent |-> 0]]

Readable(fd) ==
  IF fd = Listener THEN backlog # <<>>
  ELSE \E c \in open[fd] : peer[c].data > 0 \/ peer[c].pc = "closed"

-----------------------------------------------------------------------------
(***************************************************************************)
(* Handlers.                                                               *)
(***************************************************************************)

FreeFds == {fd \in Fds[kind] : open[fd] = {}}
NewFd == CHOOSE fd \in FreeFds : \A other \in FreeFds : fd <= other
FreeSlots == {i \in 1 .. Slots - 1 : slots[i] = Free}
FirstSlot == CHOOSE i \in FreeSlots : \A j \in FreeSlots : i <= j

\* Socket::Accept: it blocks when nobody waits, and fails without a descriptor;
\* else the new one is registered.
Accept(registered) ==
  IF backlog = <<>> THEN pc' = "blocked" /\ UNCHANGED <<slots, interest, open, backlog, peer>>
  ELSE IF FreeFds = {} THEN UNCHANGED <<pc, slots, interest, open, backlog, peer>>
  ELSE backlog' = Tail(backlog) /\ registered /\ UNCHANGED pc

\* A slot, or close when the table is full.
PutInTable(fd) ==
  /\ UNCHANGED interest
  /\ IF FreeSlots = {}
     THEN peer' = [peer EXCEPT ![Head(backlog)].pc = "refused"] /\ UNCHANGED <<slots, open>>
     ELSE /\ slots' = [slots EXCEPT ![FirstSlot] = fd]
          /\ open' = [open EXCEPT ![fd] = {Head(backlog)}]
          /\ UNCHANGED peer

PutInInterest(fd) ==
  /\ interest' = interest \cup {fd}
  /\ open' = [open EXCEPT ![fd] = {Head(backlog)}]
  /\ UNCHANGED <<slots, peer>>

SelectAccepter == Accept(PutInTable(NewFd))
PollAccepter == Accept(PutInTable(NewFd))
EpollAccepter == Accept(PutInInterest(NewFd))

\* read: it blocks when there is nothing; it takes what is there; at the end of
\* the stream or on an error it closes, and the descriptor is dropped from the
\* table.  -1 is no descriptor.
Receive(fd, dropped) ==
  /\ UNCHANGED backlog
  /\ IF fd = Free THEN dropped /\ UNCHANGED <<pc, open, peer>>
     ELSE IF ~Readable(fd) THEN pc' = "blocked" /\ UNCHANGED <<slots, interest, open, peer>>
     ELSE /\ UNCHANGED pc
          /\ IF \E c \in open[fd] : peer[c].data > 0
             THEN /\ peer' = [c \in Clients |-> IF c \in open[fd] THEN [peer[c] EXCEPT !.data = 0]
                                                ELSE peer[c]]
                  /\ UNCHANGED <<slots, interest, open>>
             ELSE open' = [open EXCEPT ![fd] = {}] /\ dropped /\ UNCHANGED peer

\* Mutant: after close the slot is kept.
SelectRecverKeeping(fd, i) == Receive(fd, UNCHANGED <<slots, interest>>)

SelectRecver(fd, i) == Receive(fd, slots' = [slots EXCEPT ![i] = Free] /\ UNCHANGED interest)
PollRecver(fd, i) == Receive(fd, slots' = [slots EXCEPT ![i] = Free] /\ UNCHANGED interest)

\* EPOLL_CTL_DEL, then close; after an error close first, which takes the
\* descriptor off the list too, so that EPOLL_CTL_DEL only fails.
EpollRecver(fd) == Receive(fd, interest' = interest \ {fd} /\ UNCHANGED slots)

-----------------------------------------------------------------------------
(***************************************************************************)
(* The loops.  A wait that times out changes nothing.                      *)
(***************************************************************************)

\* Mutant: maxfd stays the listener.
SelectWaitShort ==
  /\ pc = "wait" /\ kind = "select"
  /\ report' = {fd \in {slots[i] : i \in DOMAIN slots} \ {Free} : fd <= Listener /\ Readable(fd)}
  /\ report' # {} /\ pc' = "dispatch" /\ at' = 0
  /\ UNCHANGED <<kind, slots, interest, open, backlog, peer>>

\* The set is built anew from the table before each select.
SelectWait ==
  /\ pc = "wait" /\ kind = "select"
  /\ report' = {fd \in {slots[i] : i \in DOMAIN slots} \ {Free} : Readable(fd)}
  /\ report' # {} /\ pc' = "dispatch" /\ at' = 0
  /\ UNCHANGED <<kind, slots, interest, open, backlog, peer>>

\* The kernel writes revents of every slot, nothing into those that are free.
PollWait ==
  /\ pc = "wait" /\ kind = "poll"
  /\ report' = {i \in DOMAIN slots : slots[i] # Free /\ Readable(slots[i])}
  /\ report' # {} /\ pc' = "dispatch" /\ at' = 0
  /\ UNCHANGED <<kind, slots, interest, open, backlog, peer>>

\* poll fails, on a signal: the loop ends.
PollError ==
  /\ pc = "wait" /\ kind = "poll"
  /\ pc' = "stopped"
  /\ UNCHANGED <<kind, slots, interest, report, at, open, backlog, peer>>

\* epoll_wait returns what is ready, all of it: 32 are enough.
EpollWait ==
  /\ pc = "wait" /\ kind = "epoll"
  /\ report' = {fd \in interest : Readable(fd)}
  /\ report' # {} /\ pc' = "dispatch" /\ at' = 0
  /\ UNCHANGED <<kind, slots, interest, open, backlog, peer>>

\* One turn of select's Dispatcher.  FD_ISSET of a free slot's -1 tests the
\* bit of Alias.
SelectDispatch ==
  /\ pc = "dispatch" /\ kind = "select" /\ at < Slots
  /\ IF (IF slots[at] = Free THEN Alias ELSE slots[at]) \notin report
     THEN UNCHANGED <<pc, slots, interest, open, backlog, peer>>
     ELSE IF slots[at] = Listener THEN SelectAccepter ELSE SelectRecver(slots[at], at)
  /\ at' = at + 1
  /\ UNCHANGED <<kind, report>>

\* Mutant: the test that the code has commented out, for a used slot instead of
\* a ready one.
PollDispatchUsed ==
  /\ pc = "dispatch" /\ kind = "poll" /\ at < Slots
  /\ IF slots[at] = Free THEN UNCHANGED <<pc, slots, interest, open, backlog, peer>>
     ELSE IF slots[at] = Listener THEN PollAccepter ELSE PollRecver(slots[at], at)
  /\ at' = at + 1
  /\ UNCHANGED <<kind, report>>

PollDispatch ==
  /\ pc = "dispatch" /\ kind = "poll" /\ at < Slots
  /\ IF at \notin report THEN UNCHANGED <<pc, slots, interest, open, backlog, peer>>
     ELSE IF slots[at] = Listener THEN PollAccepter ELSE PollRecver(slots[at], at)
  /\ at' = at + 1
  /\ UNCHANGED <<kind, report>>

\* The events come in any order.
EpollDispatch ==
  /\ pc = "dispatch" /\ kind = "epoll"
  /\ \E fd \in report : /\ IF fd = Listener THEN EpollAccepter ELSE EpollRecver(fd)
                        /\ report' = report \ {fd}
  /\ UNCHANGED <<kind, at>>

DispatchEnd ==
  /\ pc = "dispatch" /\ IF kind = "epoll" THEN report = {} ELSE at = Slots
  /\ pc' = "wait" /\ at' = 0 /\ report' = {}
  /\ UNCHANGED <<kind, slots, interest, open, backlog, peer>>

Server == \/ SelectWait \/ PollWait \/ EpollWait
          \/ SelectDispatch \/ PollDispatch \/ EpollDispatch \/ DispatchEnd

-----------------------------------------------------------------------------
(***************************************************************************)
(* The clients, and the kernel's part of their connections.                *)
(***************************************************************************)

Connect(c) ==
  /\ peer[c].pc = "new" /\ Len(backlog) < Backlog
  /\ peer' = [peer EXCEPT ![c].pc = "open"]
  /\ backlog' = Append(backlog, c)
  /\ UNCHANGED <<kind, pc, slots, interest, report, at, open>>

Send(c) ==
  /\ peer[c].pc = "open" /\ peer[c].sent < MaxData
  /\ peer' = [peer EXCEPT ![c] = [pc |-> "open", data |-> @.data + 1, sent |-> @.sent + 1]]
  /\ UNCHANGED <<kind, pc, slots, interest, report, at, open, backlog>>

\* c closes or is reset: read returns 0 or an error, and the servers do the same.
Leave(c) ==
  /\ peer[c].pc = "open"
  /\ peer' = [peer EXCEPT ![c].pc = "closed"]
  /\ UNCHANGED <<kind, pc, slots, interest, report, at, open, backlog>>

Next == Server \/ PollError \/ \E c \in Clients : Connect(c) \/ Send(c) \/ Leave(c)

\* The server's thread is scheduled.
Fairness == WF_vars(Server)

Spec == Init /\ [][Next]_vars /\ Fairness

-----------------------------------------------------------------------------
(***************************************************************************)
(* Properties.                                                             *)
(***************************************************************************)

TypeOK ==
  /\ kind \in Kinds /\ pc \in {"wait", "dispatch", "blocked", "stopped"}
  /\ slots \in [0 .. Slots - 1 -> Fds[kind] \cup {Listener, Free}]
  /\ interest \subseteq Fds[kind] \cup {Listener}
  /\ open \in [Fds[kind] -> SUBSET Clients] /\ backlog \in Seq(Clients)
  /\ \A c \in Clients : /\ peer[c].pc \in {"new", "open", "closed", "refused"}
                        /\ peer[c].data \in 0 .. MaxData

\* "accept is ready, it never blocks": a handler is only called on a descriptor
\* that is ready, though slots are freed and filled, and descriptors closed and
\* handed out again, while the answer of the last wait is traversed, and though
\* select's test of a free slot looks at somebody else's bit.
NeverBlocks == pc # "blocked"

\* Every open connection is watched, in one place, and nothing else is: none is
\* forgotten, and no closed descriptor waits to be taken for its successor.
TableMatchesOpen ==
  LET used == {fd \in Fds[kind] : open[fd] # {}}
  IN IF kind = "epoll" THEN interest = used \cup {Listener}
     ELSE /\ {slots[i] : i \in 0 .. Slots - 1} \ {Free} = used \cup {Listener}
          /\ \A i, j \in 0 .. Slots - 1 : slots[i] = slots[j] => i = j \/ slots[i] = Free

\* What an accepted client sends is read, whatever the others do, as long as
\* the server runs.
EveryMessageRead ==
  \A c \in Clients : ((\E fd \in Fds[kind] : c \in open[fd]) /\ peer[c].data > 0)
                     ~> (peer[c].data = 0 \/ pc = "stopped")
=============================================================================
