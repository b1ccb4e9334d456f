-------------------------- MODULE SlotServerProofs --------------------------
(***************************************************************************)
(* The select, poll and epoll servers for any clients, descriptors and     *)
(* slots: no handler is called on a descriptor that is not ready, and what *)
(* is open is what is watched.                                             *)
(***************************************************************************)
EXTENDS Programs, WellFoundedInduction, TLAPS

SlotTypes ==
  /\ kind \in Kinds /\ pc \in {"wait", "dispatch", "blocked", "stopped"}
  /\ slots \in [0 .. Slots - 1 -> Fds[kind] \cup {Listener, Slot!Free}]
  /\ interest \subseteq Fds[kind] \cup {Listener}
  /\ open \in [Fds[kind] -> SUBSET Clients] /\ backlog \in Seq(Clients)
  /\ peer \in [Clients -> [pc : {"new", "open", "closed", "refused"}, data : Nat, sent : Nat]]
  /\ \A c \in Clients : peer[c].data <= peer[c].sent /\ peer[c].sent <= MaxData
  /\ at \in Nat

\* A client that has connected waits in the backlog or is behind one descriptor.
Queued(c) == \E i \in 1 .. Len(backlog) : backlog[i] = c

OnePlace ==
  /\ \A c \in Clients : (peer[c].pc = "new" => ~Queued(c)) /\ (Queued(c) => \A fd \in Fds[kind] : c \notin open[fd])
  /\ \A c \in Clients : peer[c].pc = "new" => \A fd \in Fds[kind] : c \notin open[fd]
  /\ \A i, j \in 1 .. Len(backlog) : backlog[i] = backlog[j] => i = j
  /\ \A f, g \in Fds[kind] : open[f] \cap open[g] # {} => f = g

\* The listener keeps the first slot, so that it is accepted from before anything is
\* closed.
ListenerFirst == slots[0] = Listener

\* What the last wait reported and has not been handled yet is still ready.
StillReady ==
  pc = "dispatch" =>
    /\ kind = "select" =>
         /\ Slot!Free \notin report
         /\ \A i \in 0 .. Slots - 1 : i >= at /\ slots[i] \in report => Slot!Readable(slots[i])
         /\ at = 0 => \A fd \in report : fd = Listener \/ (fd \in Fds[kind] /\ open[fd] # {})
    /\ kind = "poll" =>
         \A i \in 0 .. Slots - 1 : i >= at /\ i \in report => slots[i] # Slot!Free /\ Slot!Readable(slots[i])
    /\ kind = "epoll" => report \subseteq interest /\ \A fd \in report : Slot!Readable(fd)

SlotInv == SlotTypes /\ OnePlace /\ ListenerFirst /\ Slot!TableMatchesOpen /\ StillReady /\ Slot!NeverBlocks

-----------------------------------------------------------------------------
\* The smallest of some numbers, which CHOOSE then finds: what accept4 and the search
\* for a free slot return.
LEMMA Smallest ==
  ASSUME NEW S \in SUBSET Nat, S # {}
  PROVE  \E n \in S : \A m \in S : n <= m
<1>1. PICK n \in S : \A m \in S : <<m, n>> \notin OpToRel(<, Nat)
  BY NatLessThanWellFounded, WFMin
<1>2. \A m \in S : ~(m < n)
  BY <1>1 DEF OpToRel
<1> QED
  BY <1>2

\* accept4 returns a descriptor that was closed.
LEMMA NewFdIsFree ==
  ASSUME Slot!SlotConstants, SlotTypes, Slot!FreeFds # {}
  PROVE  Slot!NewFd \in Fds[kind] /\ open[Slot!NewFd] = {} /\ Slot!NewFd \in Nat /\ Slot!NewFd # Listener
<1>1. Slot!FreeFds \subseteq Nat
  BY DEF Slot!SlotConstants, SlotTypes, Slot!FreeFds
<1>2. Slot!NewFd \in Slot!FreeFds
  BY <1>1, Smallest DEF Slot!NewFd
<1> QED
  BY <1>2 DEF Slot!FreeFds, Slot!SlotConstants, SlotTypes

\* The search finds a free slot, and not the listener's.
LEMMA FirstSlotIsFree ==
  ASSUME Slot!SlotConstants, Slot!FreeSlots # {}
  PROVE  Slot!FirstSlot \in 1 .. Slots - 1 /\ slots[Slot!FirstSlot] = Slot!Free
<1>1. Slot!FreeSlots \subseteq Nat
  BY DEF Slot!SlotConstants, Slot!FreeSlots
<1>2. Slot!FirstSlot \in Slot!FreeSlots
  BY <1>1, Smallest DEF Slot!FirstSlot
<1> QED
  BY <1>2 DEF Slot!FreeSlots

-----------------------------------------------------------------------------
\* A descriptor stays readable while its connection and its data stay.
LEMMA ReadableStays ==
  ASSUME SlotTypes, NEW fd \in Fds[kind] \cup {Listener}, Slot!Readable(fd),
         fd = Listener => backlog' # <<>>,
         fd # Listener => /\ open'[fd] = open[fd]
                          /\ \A c \in open[fd] : /\ peer'[c].data \in Nat
                                                 /\ peer'[c].data >= peer[c].data
                                                 /\ peer[c].pc = "closed" => peer'[c].pc = "closed"
  PROVE  Slot!Readable(fd)'
<1>1. CASE fd = Listener
  BY <1>1 DEF Slot!Readable
<1>2. CASE fd # Listener
  <2> PICK c \in open[fd] : peer[c].data > 0 \/ peer[c].pc = "closed"
    BY <1>2 DEF Slot!Readable
  <2>1. c \in Clients /\ peer[c].data \in Nat
    BY <1>2 DEF SlotTypes
  <2>2. peer'[c].data > 0 \/ peer'[c].pc = "closed"
    <3>1. CASE peer[c].pc = "closed"
      BY <1>2, <3>1
    <3>2. CASE peer[c].data > 0
      BY <1>2, <2>1, <3>2
    <3> QED
      BY <3>1, <3>2
  <2> QED
    BY <1>2, <2>2 DEF Slot!Readable
<1> QED
  BY <1>1, <1>2

\* The initial states satisfy the invariant.
LEMMA SlotInit == ASSUME Slot!SlotConstants, Slot!Init PROVE SlotInv
<1> Fds[kind] \subseteq Nat \ {Listener} /\ kind \in Kinds /\ 0 \in 0 .. Slots - 1
  BY DEF Slot!SlotConstants, Slot!Init
<1>1. SlotTypes
  BY DEF Slot!SlotConstants, Slot!Init, SlotTypes
<1>2. OnePlace /\ ListenerFirst /\ StillReady /\ Slot!NeverBlocks
  BY DEF Slot!Init, OnePlace, Queued, ListenerFirst, StillReady, Slot!NeverBlocks
<1>3. Slot!TableMatchesOpen
  <2>1. {fd \in Fds[kind] : open[fd] # {}} = {}
    BY DEF Slot!Init
  <2>2. {slots[i] : i \in 0 .. Slots - 1} \ {Slot!Free} = {Listener}
    BY DEF Slot!Init, Slot!SlotConstants, Slot!Free
  <2>3. \A i, j \in 0 .. Slots - 1 : slots[i] = slots[j] => i = j \/ slots[i] = Slot!Free
    BY DEF Slot!Init
  <2> QED
    BY <2>1, <2>2, <2>3 DEF Slot!Init, Slot!TableMatchesOpen
<1> QED
  BY <1>1, <1>2, <1>3 DEF SlotInv

-----------------------------------------------------------------------------
\* What the table does not see leaves it matching.
LEMMA TableStays ==
  ASSUME Slot!TableMatchesOpen, UNCHANGED <<kind, slots, interest, open>>
  PROVE  Slot!TableMatchesOpen'
  BY DEF Slot!TableMatchesOpen

\* What a client's step changes: its own record, its data only to more.
LEMMA PeerSteps ==
  ASSUME Slot!SlotConstants, SlotTypes, NEW c \in Clients, Slot!Connect(c) \/ Slot!Send(c) \/ Slot!Leave(c)
  PROVE  /\ peer' = [d \in Clients |-> peer'[d]]
         /\ \A d \in Clients :
              /\ peer'[d] \in [pc : {"new", "open", "closed", "refused"}, data : Nat, sent : Nat]
              /\ peer'[d].data <= peer'[d].sent /\ peer'[d].sent <= MaxData
              /\ peer'[d].data \in Nat /\ peer'[d].data >= peer[d].data
              /\ peer[d].pc = "closed" => peer'[d].pc = "closed"
              /\ peer'[d].pc = "new" => peer[d].pc = "new"
<1> peer \in [Clients -> [pc : {"new", "open", "closed", "refused"}, data : Nat, sent : Nat]]
  BY DEF SlotTypes
<1>1. \A d \in Clients : /\ peer[d].data \in Nat /\ peer[d].sent \in Nat
                         /\ peer[d].data <= peer[d].sent /\ peer[d].sent <= MaxData
  BY DEF SlotTypes
<1>2. PICK r : /\ peer' = [peer EXCEPT ![c] = r]
               /\ r \in [pc : {"new", "open", "closed", "refused"}, data : Nat, sent : Nat]
               /\ r.data <= r.sent /\ r.sent <= MaxData /\ r.data >= peer[c].data
               /\ r.pc # "new" /\ (peer[c].pc = "closed" => r.pc = "closed")
  <2>1. CASE Slot!Connect(c)
    <3> DEFINE r == [peer[c] EXCEPT !.pc = "open"]
    <3>1. peer' = [peer EXCEPT ![c] = r] /\ peer[c].pc = "new"
      BY <2>1 DEF Slot!Connect
    <3>2. /\ r \in [pc : {"new", "open", "closed", "refused"}, data : Nat, sent : Nat]
          /\ r.data = peer[c].data /\ r.sent = peer[c].sent /\ r.pc = "open"
      OBVIOUS
    <3> HIDE DEF r
    <3>3. /\ r.data <= r.sent /\ r.sent <= MaxData /\ r.data >= peer[c].data
          /\ r.pc # "new" /\ (peer[c].pc = "closed" => r.pc = "closed")
      BY <1>1, <3>1, <3>2
    <3> QED
      BY <3>1, <3>2, <3>3
  <2>2. CASE Slot!Leave(c)
    <3> DEFINE r == [peer[c] EXCEPT !.pc = "closed"]
    <3>1. peer' = [peer EXCEPT ![c] = r] /\ peer[c].pc = "open"
      BY <2>2 DEF Slot!Leave
    <3>2. /\ r \in [pc : {"new", "open", "closed", "refused"}, data : Nat, sent : Nat]
          /\ r.data = peer[c].data /\ r.sent = peer[c].sent /\ r.pc = "closed"
      OBVIOUS
    <3> HIDE DEF r
    <3>3. /\ r.data <= r.sent /\ r.sent <= MaxData /\ r.data >= peer[c].data
          /\ r.pc # "new" /\ (peer[c].pc = "closed" => r.pc = "closed")
      BY <1>1, <3>1, <3>2
    <3> QED
      BY <3>1, <3>2, <3>3
  <2>3. CASE Slot!Send(c)
    <3> DEFINE r == [pc |-> "open", data |-> peer[c].data + 1, sent |-> peer[c].sent + 1]
    <3>1. peer' = [peer EXCEPT ![c] = r] /\ peer[c].pc = "open" /\ peer[c].sent < MaxData
      BY <2>3 DEF Slot!Send
    <3>2. /\ r \in [pc : {"new", "open", "closed", "refused"}, data : Nat, sent : Nat]
          /\ r.data <= r.sent /\ r.sent <= MaxData /\ r.data >= peer[c].data /\ r.pc = "open"
      BY <1>1, <3>1 DEF Slot!SlotConstants
    <3> HIDE DEF r
    <3> QED
      BY <3>1, <3>2
  <2> QED
    BY <2>1, <2>2, <2>3
<1>3. \A d \in Clients : peer'[d] = IF d = c THEN r ELSE peer[d]
  BY <1>2
<1>4. peer' = [d \in Clients |-> peer'[d]]
  BY <1>2
<1> QED
  BY <1>1, <1>2, <1>3, <1>4

\* The clients: nothing that was ready stops being so.
LEMMA ClientKeeps ==
  ASSUME Slot!SlotConstants, SlotInv, NEW c \in Clients, Slot!Connect(c) \/ Slot!Send(c) \/ Slot!Leave(c)
  PROVE  SlotInv'
<1> USE DEF SlotInv
<1>1. UNCHANGED <<kind, pc, slots, interest, report, at, open>>
  BY DEF Slot!Connect, Slot!Send, Slot!Leave
<1>2. SlotTypes'
  <2>1. \A d \in Clients :
          /\ peer'[d] \in [pc : {"new", "open", "closed", "refused"}, data : Nat, sent : Nat]
          /\ peer'[d].data <= peer'[d].sent /\ peer'[d].sent <= MaxData
    BY PeerSteps DEF SlotTypes, Slot!SlotConstants
  <2>2. peer' \in [Clients -> [pc : {"new", "open", "closed", "refused"}, data : Nat, sent : Nat]]
    <3>1. peer' = [d \in Clients |-> peer'[d]]
      BY PeerSteps
    <3> QED
      BY <2>1, <3>1
  <2>3. backlog' \in Seq(Clients)
    <3>1. backlog \in Seq(Clients)
      BY DEF SlotTypes
    <3>2. CASE backlog' = backlog
      BY <3>1, <3>2
    <3>3. CASE backlog' = Append(backlog, c)
      BY <3>1, <3>3
    <3> QED
      BY <3>2, <3>3 DEF Slot!Connect, Slot!Send, Slot!Leave
  <2> QED
    BY <1>1, <2>1, <2>2, <2>3 DEF SlotTypes
<1>3. OnePlace'
  <2>1. CASE Slot!Connect(c)
    <3>1. /\ backlog' = Append(backlog, c) /\ peer[c].pc = "new" /\ backlog \in Seq(Clients)
          /\ peer' = [peer EXCEPT ![c] = [peer[c] EXCEPT !.pc = "open"]]
      BY <2>1 DEF Slot!Connect, SlotTypes
    <3>2. \A i \in 1 .. Len(backlog) : backlog[i] # c
      BY <3>1 DEF OnePlace, Queued
    <3>3. /\ Len(backlog') = Len(backlog) + 1 /\ Len(backlog) \in Nat /\ backlog'[Len(backlog) + 1] = c
          /\ \A i \in 1 .. Len(backlog) : backlog'[i] = backlog[i]
      BY <3>1
    <3>4. \A d \in Clients : Queued(d)' => d = c \/ Queued(d)
      BY <3>3 DEF Queued
    <3>5. \A i, j \in 1 .. Len(backlog') : backlog'[i] = backlog'[j] => i = j
      BY <3>2, <3>3 DEF OnePlace
    <3>6. \A d \in Clients : peer'[d].pc = "new" => peer[d].pc = "new" /\ d # c
      <4>1. peer'[c].pc = "open"
        BY <3>1 DEF SlotTypes
      <4> QED
        BY <4>1, PeerSteps
    <3> QED
      BY <1>1, <3>1, <3>4, <3>5, <3>6 DEF OnePlace
  <2>2. CASE Slot!Send(c) \/ Slot!Leave(c)
    <3>1. backlog' = backlog /\ \A d \in Clients : peer'[d].pc = "new" => peer[d].pc = "new"
      BY <2>2, PeerSteps DEF Slot!Send, Slot!Leave
    <3> QED
      BY <1>1, <3>1 DEF OnePlace, Queued
  <2> QED
    BY <2>1, <2>2
<1>4. \A fd \in Fds[kind] \cup {Listener} : Slot!Readable(fd) => Slot!Readable(fd)'
  <2>1. backlog # <<>> => backlog' # <<>>
    BY DEF Slot!Connect, Slot!Send, Slot!Leave, SlotTypes
  <2>2. \A d \in Clients : /\ peer'[d].data \in Nat /\ peer'[d].data >= peer[d].data
                           /\ peer[d].pc = "closed" => peer'[d].pc = "closed"
    BY PeerSteps
  <2> SUFFICES ASSUME NEW fd \in Fds[kind] \cup {Listener}, Slot!Readable(fd) PROVE Slot!Readable(fd)'
    OBVIOUS
  <2>3. fd = Listener => backlog' # <<>>
    BY <2>1 DEF Slot!Readable
  <2>4. fd # Listener => open'[fd] = open[fd] /\ open[fd] \subseteq Clients
    BY <1>1 DEF SlotTypes
  <2> QED
    BY <2>2, <2>3, <2>4, ReadableStays
<1>5. StillReady'
  <2>1. interest \subseteq Fds[kind] \cup {Listener}
        /\ \A i \in 0 .. Slots - 1 : slots[i] # Slot!Free => slots[i] \in Fds[kind] \cup {Listener}
    BY DEF SlotTypes
  <2>2. ASSUME pc = "dispatch", kind = "select" PROVE StillReady'
    BY <1>1, <1>4, <2>1, <2>2 DEF StillReady
  <2>3. ASSUME pc = "dispatch", kind = "poll" PROVE StillReady'
    BY <1>1, <1>4, <2>1, <2>3 DEF StillReady
  <2>4. ASSUME pc = "dispatch", kind = "epoll" PROVE StillReady'
    BY <1>1, <1>4, <2>1, <2>4 DEF StillReady
  <2>5. kind \in {"select", "poll", "epoll"}
    BY DEF SlotTypes, Slot!SlotConstants
  <2>6. ASSUME pc # "dispatch" PROVE StillReady'
    BY <1>1, <2>6 DEF StillReady
  <2> QED
    BY <2>2, <2>3, <2>4, <2>5, <2>6
<1> QED
  BY <1>1, <1>2, <1>3, <1>5, TableStays DEF ListenerFirst, Slot!NeverBlocks

\* The waits: what they report is ready.
LEMMA WaitKeeps ==
  ASSUME Slot!SlotConstants, SlotInv, Slot!SelectWait \/ Slot!PollWait \/ Slot!EpollWait \/ Slot!DispatchEnd \/ Slot!PollError
  PROVE  SlotInv'
<1> USE DEF SlotInv
<1>1. UNCHANGED <<kind, slots, interest, open, backlog, peer>> /\ pc' \in {"wait", "dispatch", "stopped"}
  BY DEF Slot!SelectWait, Slot!PollWait, Slot!EpollWait, Slot!DispatchEnd, Slot!PollError
<1>2. at' \in Nat
  BY DEF Slot!SelectWait, Slot!PollWait, Slot!EpollWait, Slot!DispatchEnd, Slot!PollError, SlotTypes
<1>3. SlotTypes' /\ OnePlace' /\ ListenerFirst' /\ Slot!NeverBlocks'
  BY <1>1, <1>2 DEF SlotTypes, OnePlace, Queued, ListenerFirst, Slot!NeverBlocks
<1>4. \A fd : Slot!Readable(fd) => Slot!Readable(fd)'
  BY <1>1 DEF Slot!Readable
<1>5. CASE Slot!SelectWait
  <2>1. /\ kind = "select" /\ at' = 0
        /\ report' = {fd \in {slots[i] : i \in DOMAIN slots} \ {Slot!Free} : Slot!Readable(fd)}
    BY <1>5 DEF Slot!SelectWait
  <2>2. \A fd \in report' : Slot!Readable(fd)'
    BY <1>4, <2>1
  <2>3. \A fd \in report' : fd = Listener \/ (fd \in Fds[kind] /\ open[fd] # {})
    <3>1. DOMAIN slots = 0 .. Slots - 1
      BY DEF SlotTypes
    <3>2. {slots[i] : i \in 0 .. Slots - 1} \ {Slot!Free} = {fd \in Fds[kind] : open[fd] # {}} \cup {Listener}
      BY <2>1 DEF Slot!TableMatchesOpen
    <3> QED
      BY <2>1, <3>1, <3>2
  <2>4. Slot!Free \notin report'
    BY <2>1
  <2> QED
    BY <1>1, <1>3, <2>1, <2>2, <2>3, <2>4, TableStays DEF StillReady
<1>6. CASE Slot!PollWait
  <2>1. /\ kind = "poll"
        /\ \A i \in report' : slots[i] # Slot!Free /\ Slot!Readable(slots[i])'
    BY <1>4, <1>6 DEF Slot!PollWait
  <2> QED
    BY <1>1, <1>3, <2>1, TableStays DEF StillReady
<1>7. CASE Slot!EpollWait
  <2>1. kind = "epoll" /\ report' \subseteq interest /\ \A fd \in report' : Slot!Readable(fd)'
    BY <1>4, <1>7 DEF Slot!EpollWait
  <2> QED
    BY <1>1, <1>3, <2>1, TableStays DEF StillReady
<1>8. CASE Slot!DispatchEnd \/ Slot!PollError
  <2>1. pc' # "dispatch"
    BY <1>8 DEF Slot!DispatchEnd, Slot!PollError
  <2> QED
    BY <1>1, <1>3, <2>1, TableStays DEF StillReady
<1> QED
  BY <1>5, <1>6, <1>7, <1>8

-----------------------------------------------------------------------------
\* TableMatchesOpen of a table, one slot and one descriptor at a time.
InTable ==
  /\ \A i \in 0 .. Slots - 1 :
       slots[i] # Slot!Free => slots[i] = Listener \/ (slots[i] \in Fds[kind] /\ open[slots[i]] # {})
  /\ \A fd \in Fds[kind] : open[fd] # {} => \E i \in 0 .. Slots - 1 : slots[i] = fd
  /\ \A i, j \in 0 .. Slots - 1 : slots[i] = slots[j] => i = j \/ slots[i] = Slot!Free

\* Descriptors are told from a free slot and from the listener.
LEMMA Descriptors ==
  ASSUME Slot!SlotConstants, kind \in Kinds
  PROVE  /\ Slot!Free # Listener /\ Slot!Free \notin Fds[kind] /\ Listener \notin Fds[kind]
         /\ 0 \in 0 .. Slots - 1
  BY DEF Slot!SlotConstants, Slot!Free

\* The property gives the pointwise form,
LEMMA TableGives ==
  ASSUME Slot!SlotConstants, SlotTypes, Slot!TableMatchesOpen, kind # "epoll"
  PROVE  InTable
<1>1. {slots[i] : i \in 0 .. Slots - 1} \ {Slot!Free} = {fd \in Fds[kind] : open[fd] # {}} \cup {Listener}
  BY DEF Slot!TableMatchesOpen
<1>2. \A i \in 0 .. Slots - 1 :
        slots[i] # Slot!Free => slots[i] = Listener \/ (slots[i] \in Fds[kind] /\ open[slots[i]] # {})
  BY <1>1
<1>3. \A fd \in Fds[kind] : open[fd] # {} => \E i \in 0 .. Slots - 1 : slots[i] = fd
  BY <1>1
<1> QED
  BY <1>2, <1>3 DEF Slot!TableMatchesOpen, InTable

\* and is given by it.
LEMMA TableIsMatched ==
  ASSUME Slot!SlotConstants, kind' \in Kinds, kind' # "epoll", InTable', ListenerFirst'
  PROVE  Slot!TableMatchesOpen'
<1> Slot!Free # Listener /\ Slot!Free \notin Fds[kind'] /\ Listener \notin Fds[kind'] /\ 0 \in 0 .. Slots - 1
  BY DEF Slot!SlotConstants, Slot!Free
<1>1. {slots'[i] : i \in 0 .. Slots - 1} \ {Slot!Free} = {fd \in Fds[kind'] : open'[fd] # {}} \cup {Listener}
  <2>1. ASSUME NEW i \in 0 .. Slots - 1, slots'[i] # Slot!Free
        PROVE  slots'[i] \in {fd \in Fds[kind'] : open'[fd] # {}} \cup {Listener}
    BY <2>1 DEF InTable
  <2>2. ASSUME NEW fd \in Fds[kind'], open'[fd] # {}
        PROVE  fd \in {slots'[i] : i \in 0 .. Slots - 1} \ {Slot!Free}
    BY <2>2 DEF InTable
  <2>3. Listener \in {slots'[i] : i \in 0 .. Slots - 1} \ {Slot!Free}
    BY DEF ListenerFirst
  <2> QED
    BY <2>1, <2>2, <2>3
<1> QED
  BY <1>1 DEF Slot!TableMatchesOpen, InTable

-----------------------------------------------------------------------------
\* The client that accept takes out of the backlog was in no other place, and is in
\* none when it is refused.
LEMMA HeadLeaves ==
  ASSUME SlotTypes, OnePlace, backlog # <<>>, backlog' = Tail(backlog)
  PROVE  /\ backlog' \in Seq(Clients) /\ Head(backlog) \in Clients
         /\ peer[Head(backlog)].pc # "new" /\ \A fd \in Fds[kind] : Head(backlog) \notin open[fd]
         /\ (\A i \in 1 .. Len(backlog') : backlog'[i] # Head(backlog)) /\ \A c \in Clients : Queued(c)' => Queued(c)
         /\ \A i, j \in 1 .. Len(backlog') : backlog'[i] = backlog'[j] => i = j
<1>1. /\ backlog \in Seq(Clients) /\ Len(backlog) \in Nat \ {0} /\ Head(backlog) = backlog[1]
      /\ backlog' \in Seq(Clients) /\ Len(backlog') = Len(backlog) - 1
      /\ \A i \in 1 .. Len(backlog) - 1 : backlog'[i] = backlog[i + 1]
  BY DEF SlotTypes
<1>2. Head(backlog) \in Clients /\ Queued(Head(backlog))
  BY <1>1 DEF Queued
<1>3. \A i, j \in 1 .. Len(backlog) : backlog[i] = backlog[j] => i = j
  BY DEF OnePlace
<1>4. \A i \in 1 .. Len(backlog') : i + 1 \in 1 .. Len(backlog) /\ backlog'[i] = backlog[i + 1]
  BY <1>1
<1>5. \A i \in 1 .. Len(backlog') : backlog'[i] # Head(backlog)
  <2>1. ASSUME NEW i \in 1 .. Len(backlog'), backlog'[i] = backlog[1] PROVE FALSE
    BY <1>1, <1>3, <1>4, <2>1
  <2> QED
    BY <1>1, <2>1
<1>6. \A c \in Clients : Queued(c)' => Queued(c)
  BY <1>4 DEF Queued
<1>7. \A i, j \in 1 .. Len(backlog') : backlog'[i] = backlog'[j] => i = j
  <2> SUFFICES ASSUME NEW i \in 1 .. Len(backlog'), NEW j \in 1 .. Len(backlog'), backlog'[i] = backlog'[j]
               PROVE  i = j
    OBVIOUS
  <2>1. i + 1 = j + 1
    BY <1>3, <1>4
  <2> QED
    BY <1>1, <2>1
<1> QED
  BY <1>1, <1>2, <1>5, <1>6, <1>7 DEF OnePlace

\* accept puts a client behind a descriptor that was closed: nobody else is moved, and
\* what was readable stays so.
LEMMA OpenKeeps ==
  ASSUME Slot!SlotConstants, SlotTypes, OnePlace, backlog # <<>>, backlog' = Tail(backlog), Slot!FreeFds # {},
         open' = [open EXCEPT ![Slot!NewFd] = {Head(backlog)}], UNCHANGED <<kind, peer>>
  PROVE  /\ open' \in [Fds[kind] -> SUBSET Clients] /\ OnePlace'
         /\ \A fd \in Fds[kind] : (open'[fd] # {}) <=> (open[fd] # {} \/ fd = Slot!NewFd)
         /\ \A fd \in Fds[kind] : Slot!Readable(fd) => Slot!Readable(fd)'
<1> USE HeadLeaves, NewFdIsFree
<1>1. open \in [Fds[kind] -> SUBSET Clients]
  BY DEF SlotTypes
<1>2. \A fd \in Fds[kind] : open'[fd] = IF fd = Slot!NewFd THEN {Head(backlog)} ELSE open[fd]
  BY <1>1
<1>3. OnePlace'
  <2>1. \A c \in Clients : /\ peer'[c].pc = "new" => ~Queued(c)'
                           /\ Queued(c)' => \A fd \in Fds[kind'] : c \notin open'[fd]
                           /\ peer'[c].pc = "new" => \A fd \in Fds[kind'] : c \notin open'[fd]
    <3>1. \A c \in Clients : Queued(c)' => c # Head(backlog)
      BY DEF Queued
    <3> QED
      BY <1>2, <3>1 DEF OnePlace
  <2>2. \A f, g \in Fds[kind'] : open'[f] \cap open'[g] # {} => f = g
    BY <1>2 DEF OnePlace
  <2> QED
    BY <2>1, <2>2 DEF OnePlace
<1>4. ASSUME NEW fd \in Fds[kind], Slot!Readable(fd) PROVE Slot!Readable(fd)'
  <2>1. fd # Listener
    BY DEF Slot!SlotConstants, SlotTypes
  <2>2. open'[fd] = open[fd]
    BY <1>2, <1>4, <2>1 DEF Slot!Readable
  <2> QED
    BY <1>4, <2>1, <2>2 DEF Slot!Readable
<1> QED
  BY <1>1, <1>2, <1>3, <1>4

\* A client that is refused was behind no descriptor.
LEMMA RefuseKeeps ==
  ASSUME Slot!SlotConstants, SlotTypes, OnePlace, backlog # <<>>, backlog' = Tail(backlog),
         peer' = [peer EXCEPT ![Head(backlog)].pc = "refused"], UNCHANGED <<kind, open>>
  PROVE  /\ peer' \in [Clients -> [pc : {"new", "open", "closed", "refused"}, data : Nat, sent : Nat]]
         /\ \A c \in Clients : peer'[c].data <= peer'[c].sent /\ peer'[c].sent <= MaxData
         /\ OnePlace'
         /\ \A fd \in Fds[kind] : Slot!Readable(fd) => Slot!Readable(fd)'
<1> USE HeadLeaves
<1> DEFINE h == Head(backlog)
           r == [peer[h] EXCEPT !.pc = "refused"]
<1>1. peer \in [Clients -> [pc : {"new", "open", "closed", "refused"}, data : Nat, sent : Nat]] /\ h \in Clients
  BY DEF SlotTypes
<1>2. /\ r \in [pc : {"new", "open", "closed", "refused"}, data : Nat, sent : Nat]
      /\ r.data = peer[h].data /\ r.sent = peer[h].sent /\ r.pc = "refused"
  BY <1>1
<1>3. peer' = [peer EXCEPT ![h] = r]
  OBVIOUS
<1> HIDE DEF r
<1>4. \A c \in Clients : peer'[c] = IF c = h THEN r ELSE peer[c]
  BY <1>1, <1>3
<1>5. peer' \in [Clients -> [pc : {"new", "open", "closed", "refused"}, data : Nat, sent : Nat]]
  BY <1>1, <1>2, <1>3
<1>6. \A c \in Clients : peer'[c].data <= peer'[c].sent /\ peer'[c].sent <= MaxData
  BY <1>2, <1>4 DEF SlotTypes
<1>7. OnePlace'
  <2>1. \A c \in Clients : peer'[c].pc = "new" => peer[c].pc = "new"
    BY <1>2, <1>4
  <2> QED
    BY <2>1 DEF OnePlace
<1>8. ASSUME NEW fd \in Fds[kind], Slot!Readable(fd) PROVE Slot!Readable(fd)'
  <2>1. fd # Listener
    BY DEF Slot!SlotConstants, SlotTypes
  <2>2. \A c \in open[fd] : c \in Clients /\ c # h
    BY DEF SlotTypes
  <2>3. \A c \in open[fd] : peer'[c] = peer[c]
    BY <1>4, <2>2
  <2> QED
    BY <1>8, <2>1, <2>3 DEF Slot!Readable
<1> QED
  BY <1>5, <1>6, <1>7, <1>8

\* Accepter of a server with a table: only a free slot is filled, with a descriptor that
\* was closed.
LEMMA AcceptIntoTable ==
  ASSUME Slot!SlotConstants, SlotInv, kind # "epoll", backlog # <<>>, Slot!Accept(Slot!PutInTable(Slot!NewFd)),
         kind' = kind, at' \in Nat
  PROVE  /\ SlotTypes' /\ OnePlace' /\ ListenerFirst' /\ Slot!TableMatchesOpen' /\ Slot!NeverBlocks'
         /\ \A i \in 0 .. Slots - 1 :
              slots'[i] = slots[i] \/ (slots[i] = Slot!Free /\ slots'[i] \in Fds[kind] /\ open[slots'[i]] = {})
         /\ \A fd \in Fds[kind] : Slot!Readable(fd) => Slot!Readable(fd)'
<1> USE DEF SlotInv
<1> Slot!Free # Listener /\ Slot!Free \notin Fds[kind] /\ Listener \notin Fds[kind] /\ 0 \in 0 .. Slots - 1
  BY Descriptors DEF SlotTypes
<1>1. CASE Slot!FreeFds = {}
  <2>1. UNCHANGED <<kind, pc, slots, interest, open, backlog, peer>>
    BY <1>1 DEF Slot!Accept
  <2> QED
    BY <2>1, TableStays DEF SlotTypes, OnePlace, Queued, ListenerFirst, Slot!NeverBlocks, Slot!Readable
<1>2. CASE Slot!FreeFds # {} /\ Slot!FreeSlots = {}
  <2>1. /\ UNCHANGED <<kind, pc, slots, interest, open>> /\ backlog' = Tail(backlog)
        /\ peer' = [peer EXCEPT ![Head(backlog)].pc = "refused"]
    BY <1>2 DEF Slot!Accept, Slot!PutInTable
  <2>2. backlog' \in Seq(Clients)
    BY <2>1, HeadLeaves
  <2> QED
    BY <2>1, <2>2, RefuseKeeps, TableStays DEF SlotTypes, ListenerFirst, Slot!NeverBlocks
<1>3. CASE Slot!FreeFds # {} /\ Slot!FreeSlots # {}
  <2>1. /\ UNCHANGED <<kind, pc, interest, peer>> /\ backlog' = Tail(backlog)
        /\ slots' = [slots EXCEPT ![Slot!FirstSlot] = Slot!NewFd]
        /\ open' = [open EXCEPT ![Slot!NewFd] = {Head(backlog)}]
    BY <1>3 DEF Slot!Accept, Slot!PutInTable
  <2>2. backlog' \in Seq(Clients)
    BY <2>1, HeadLeaves
  <2>3. /\ Slot!NewFd \in Fds[kind] /\ open[Slot!NewFd] = {}
        /\ Slot!FirstSlot \in 1 .. Slots - 1 /\ slots[Slot!FirstSlot] = Slot!Free
    BY <1>3, NewFdIsFree, FirstSlotIsFree
  <2>4. /\ Slot!FirstSlot \in 0 .. Slots - 1 /\ Slot!FirstSlot # 0
        /\ \A i \in 0 .. Slots - 1 : slots'[i] = IF i = Slot!FirstSlot THEN Slot!NewFd ELSE slots[i]
        /\ slots' \in [0 .. Slots - 1 -> Fds[kind] \cup {Listener, Slot!Free}]
    BY <2>1, <2>3 DEF SlotTypes, Slot!SlotConstants
  <2>5. /\ open' \in [Fds[kind] -> SUBSET Clients] /\ OnePlace'
        /\ \A fd \in Fds[kind] : (open'[fd] # {}) <=> (open[fd] # {} \/ fd = Slot!NewFd)
        /\ \A fd \in Fds[kind] : Slot!Readable(fd) => Slot!Readable(fd)'
    BY <1>3, <2>1, OpenKeeps
  <2>6. SlotTypes'
    BY <2>1, <2>2, <2>4, <2>5 DEF SlotTypes
  <2>7. ListenerFirst' /\ Slot!NeverBlocks'
    BY <2>1, <2>4 DEF ListenerFirst, Slot!NeverBlocks
  <2>8. InTable'
    <3>1. InTable
      BY TableGives
    <3>2. ASSUME NEW i \in 0 .. Slots - 1, slots'[i] # Slot!Free
          PROVE  slots'[i] = Listener \/ (slots'[i] \in Fds[kind'] /\ open'[slots'[i]] # {})
      BY <2>1, <2>3, <2>4, <2>5, <3>1, <3>2 DEF InTable
    <3>3. ASSUME NEW fd \in Fds[kind'], open'[fd] # {}
          PROVE  \E i \in 0 .. Slots - 1 : slots'[i] = fd
      <4>1. CASE fd = Slot!NewFd
        BY <2>4, <4>1
      <4>2. CASE fd # Slot!NewFd
        <5>1. PICK i \in 0 .. Slots - 1 : slots[i] = fd
          BY <2>1, <2>5, <3>1, <3>3, <4>2 DEF InTable
        <5>2. i # Slot!FirstSlot
          BY <2>1, <2>3, <5>1
        <5> QED
          BY <2>4, <5>1, <5>2
      <4> QED
        BY <4>1, <4>2
    <3>4. ASSUME NEW i \in 0 .. Slots - 1, NEW j \in 0 .. Slots - 1, slots'[i] = slots'[j]
          PROVE  i = j \/ slots'[i] = Slot!Free
      <4>1. \A k \in 0 .. Slots - 1 : slots[k] # Slot!NewFd
        BY <2>3, <3>1 DEF InTable
      <4> QED
        BY <2>4, <3>1, <3>4, <4>1 DEF InTable
    <3> QED
      BY <3>2, <3>3, <3>4 DEF InTable
  <2>9. Slot!TableMatchesOpen'
    BY <2>1, <2>7, <2>8, TableIsMatched DEF SlotTypes
  <2> QED
    BY <2>3, <2>4, <2>5, <2>6, <2>7, <2>9
<1> QED
  BY <1>1, <1>2, <1>3

\* What is read of one descriptor leaves all others as they were: nobody is behind two.
LEMMA ReadKeeps ==
  ASSUME Slot!SlotConstants, SlotInv, NEW fd \in Fds[kind],
         UNCHANGED <<kind, pc, slots, interest, open, backlog>>, at' \in Nat,
         peer' = [c \in Clients |-> IF c \in open[fd] THEN [peer[c] EXCEPT !.data = 0] ELSE peer[c]]
  PROVE  /\ SlotTypes' /\ OnePlace' /\ ListenerFirst' /\ Slot!TableMatchesOpen' /\ Slot!NeverBlocks'
         /\ \A g \in Fds[kind] \cup {Listener} : g # fd /\ Slot!Readable(g) => Slot!Readable(g)'
<1> USE DEF SlotInv
<1>1. peer \in [Clients -> [pc : {"new", "open", "closed", "refused"}, data : Nat, sent : Nat]]
  BY DEF SlotTypes
<1>2. ASSUME NEW c \in Clients
      PROVE  /\ peer'[c] \in [pc : {"new", "open", "closed", "refused"}, data : Nat, sent : Nat]
             /\ peer'[c].data <= peer'[c].sent /\ peer'[c].sent <= MaxData
             /\ peer'[c].pc = peer[c].pc
  <2>1. /\ peer[c] \in [pc : {"new", "open", "closed", "refused"}, data : Nat, sent : Nat]
        /\ peer[c].data <= peer[c].sent /\ peer[c].sent <= MaxData
    BY DEF SlotTypes
  <2>2. CASE c \in open[fd]
    <3> DEFINE r == [peer[c] EXCEPT !.data = 0]
    <3>1. /\ r \in [pc : {"new", "open", "closed", "refused"}, data : Nat, sent : Nat]
          /\ r.data = 0 /\ r.sent = peer[c].sent /\ r.pc = peer[c].pc /\ r.sent \in Nat
      BY <2>1
    <3>2. peer'[c] = r
      BY <2>2
    <3> HIDE DEF r
    <3> QED
      BY <2>1, <3>1, <3>2
  <2>3. CASE c \notin open[fd]
    BY <2>1, <2>3
  <2> QED
    BY <2>2, <2>3
<1>3. peer' \in [Clients -> [pc : {"new", "open", "closed", "refused"}, data : Nat, sent : Nat]]
  <2>1. peer' = [c \in Clients |-> peer'[c]]
    OBVIOUS
  <2> QED
    BY <1>2, <2>1
<1>4. SlotTypes'
  BY <1>2, <1>3 DEF SlotTypes
<1>5. OnePlace'
  BY <1>2 DEF OnePlace, Queued
<1>6. ListenerFirst' /\ Slot!NeverBlocks' /\ Slot!TableMatchesOpen'
  BY TableStays DEF ListenerFirst, Slot!NeverBlocks
<1>7. ASSUME NEW g \in Fds[kind] \cup {Listener}, g # fd, Slot!Readable(g) PROVE Slot!Readable(g)'
  <2>1. CASE g = Listener
    BY <1>7, <2>1 DEF Slot!Readable
  <2>2. CASE g # Listener
    <3>1. \A c \in open[g] : c \in Clients /\ c \notin open[fd]
      BY <1>7, <2>2 DEF SlotTypes, OnePlace
    <3>2. \A c \in open[g] : peer'[c] = peer[c]
      BY <3>1
    <3> QED
      BY <1>7, <2>2, <3>2 DEF Slot!Readable
  <2> QED
    BY <2>1, <2>2
<1> QED
  BY <1>4, <1>5, <1>6, <1>7

\* What close changes for the others: nothing.
LEMMA CloseLeavesOthers ==
  ASSUME Slot!SlotConstants, SlotTypes, OnePlace, NEW fd \in Fds[kind],
         open' = [open EXCEPT ![fd] = {}], UNCHANGED <<kind, backlog, peer>>
  PROVE  /\ open' \in [Fds[kind] -> SUBSET Clients] /\ OnePlace'
         /\ \A g \in Fds[kind] : open'[g] = IF g = fd THEN {} ELSE open[g]
         /\ \A g \in Fds[kind] \cup {Listener} : g # fd /\ Slot!Readable(g) => Slot!Readable(g)'
<1>1. open' \in [Fds[kind] -> SUBSET Clients]
  BY DEF SlotTypes
<1>2. \A g \in Fds[kind] : open'[g] = IF g = fd THEN {} ELSE open[g]
  BY DEF SlotTypes
<1>3. OnePlace'
  BY <1>2 DEF OnePlace, Queued
<1>4. \A g \in Fds[kind] \cup {Listener} : g # fd /\ Slot!Readable(g) => Slot!Readable(g)'
  BY <1>2 DEF Slot!Readable
<1> QED
  BY <1>1, <1>2, <1>3, <1>4

\* The descriptor that is closed leaves its slot,
LEMMA CloseInTable ==
  ASSUME Slot!SlotConstants, SlotInv, kind # "epoll", NEW i \in 0 .. Slots - 1, slots[i] \in Fds[kind],
         slots' = [slots EXCEPT ![i] = Slot!Free], open' = [open EXCEPT ![slots[i]] = {}],
         UNCHANGED <<kind, pc, interest, backlog, peer>>, at' \in Nat
  PROVE  SlotTypes' /\ OnePlace' /\ ListenerFirst' /\ Slot!TableMatchesOpen' /\ Slot!NeverBlocks'
<1> USE DEF SlotInv
<1> Slot!Free # Listener /\ Slot!Free \notin Fds[kind] /\ Listener \notin Fds[kind] /\ 0 \in 0 .. Slots - 1
  BY Descriptors DEF SlotTypes
<1>1. /\ open' \in [Fds[kind] -> SUBSET Clients] /\ OnePlace'
      /\ \A g \in Fds[kind] : open'[g] = IF g = slots[i] THEN {} ELSE open[g]
  BY CloseLeavesOthers
<1>2. /\ i # 0
      /\ \A j \in 0 .. Slots - 1 : slots'[j] = IF j = i THEN Slot!Free ELSE slots[j]
      /\ slots' \in [0 .. Slots - 1 -> Fds[kind] \cup {Listener, Slot!Free}]
  BY DEF SlotTypes, ListenerFirst
<1>3. SlotTypes'
  BY <1>1, <1>2 DEF SlotTypes
<1>4. ListenerFirst' /\ Slot!NeverBlocks'
  BY <1>2 DEF ListenerFirst, Slot!NeverBlocks
<1>5. InTable'
  <2>1. InTable
    BY TableGives
  <2>2. \A j \in 0 .. Slots - 1 : slots[j] = slots[i] => j = i
    BY <2>1 DEF InTable
  <2>3. ASSUME NEW j \in 0 .. Slots - 1, slots'[j] # Slot!Free
        PROVE  slots'[j] = Listener \/ (slots'[j] \in Fds[kind'] /\ open'[slots'[j]] # {})
    BY <1>1, <1>2, <2>1, <2>2, <2>3 DEF InTable
  <2>4. ASSUME NEW g \in Fds[kind'], open'[g] # {} PROVE \E j \in 0 .. Slots - 1 : slots'[j] = g
    <3>1. g # slots[i] /\ open[g] # {}
      BY <1>1, <2>4
    <3>2. PICK j \in 0 .. Slots - 1 : slots[j] = g
      BY <2>1, <3>1 DEF InTable
    <3> QED
      BY <1>2, <3>1, <3>2
  <2>5. ASSUME NEW j \in 0 .. Slots - 1, NEW k \in 0 .. Slots - 1, slots'[j] = slots'[k]
        PROVE  j = k \/ slots'[j] = Slot!Free
    BY <1>2, <2>1, <2>5 DEF InTable
  <2> QED
    BY <2>3, <2>4, <2>5 DEF InTable
<1>6. Slot!TableMatchesOpen'
  BY <1>4, <1>5, TableIsMatched DEF SlotTypes
<1> QED
  BY <1>1, <1>3, <1>4, <1>6

\* or the interest list.
LEMMA CloseInInterest ==
  ASSUME Slot!SlotConstants, SlotInv, kind = "epoll", NEW fd \in Fds[kind],
         interest' = interest \ {fd}, open' = [open EXCEPT ![fd] = {}],
         UNCHANGED <<kind, pc, slots, backlog, peer, at>>
  PROVE  SlotTypes' /\ OnePlace' /\ ListenerFirst' /\ Slot!TableMatchesOpen' /\ Slot!NeverBlocks'
<1> USE DEF SlotInv
<1> Listener \notin Fds[kind]
  BY Descriptors DEF SlotTypes
<1>1. /\ open' \in [Fds[kind] -> SUBSET Clients] /\ OnePlace'
      /\ \A g \in Fds[kind] : open'[g] = IF g = fd THEN {} ELSE open[g]
  BY CloseLeavesOthers
<1>2. SlotTypes' /\ ListenerFirst' /\ Slot!NeverBlocks'
  BY <1>1 DEF SlotTypes, ListenerFirst, Slot!NeverBlocks
<1>3. Slot!TableMatchesOpen'
  <2>1. interest = {g \in Fds[kind] : open[g] # {}} \cup {Listener}
    BY DEF Slot!TableMatchesOpen
  <2>2. interest' = {g \in Fds[kind] : open'[g] # {}} \cup {Listener}
    BY <1>1, <2>1
  <2> QED
    BY <2>2 DEF Slot!TableMatchesOpen
<1> QED
  BY <1>1, <1>2, <1>3

-----------------------------------------------------------------------------
\* A turn of select's Dispatcher.  A free slot whose test hits somebody else's bit
\* changes nothing; a slot that is filled while the answer is traversed is not in it.
LEMMA SelectKeeps ==
  ASSUME Slot!SlotConstants, SlotInv, Slot!SelectDispatch
  PROVE  SlotInv'
<1> USE DEF SlotInv
<1> Slot!Free # Listener /\ Slot!Free \notin Fds[kind] /\ Listener \notin Fds[kind] /\ 0 \in 0 .. Slots - 1
  BY Descriptors DEF SlotTypes
<1>1. /\ pc = "dispatch" /\ kind = "select" /\ at \in 0 .. Slots - 1 /\ at' = at + 1 /\ at' \in Nat
      /\ kind' = kind /\ report' = report /\ at' # 0
  BY DEF Slot!SelectDispatch, SlotTypes, Slot!SlotConstants
<1>2. /\ Slot!Free \notin report
      /\ \A i \in 0 .. Slots - 1 : i >= at /\ slots[i] \in report => Slot!Readable(slots[i])
      /\ at = 0 => \A fd \in report : fd = Listener \/ (fd \in Fds[kind] /\ open[fd] # {})
  BY <1>1 DEF StillReady
<1>3. InTable
  BY <1>1, TableGives
<1>4. \A i \in 0 .. Slots - 1 : slots[i] \in Fds[kind] \cup {Listener, Slot!Free}
  BY DEF SlotTypes
<1>5. CASE UNCHANGED <<pc, slots, interest, open, backlog, peer>>
  <2>1. SlotTypes' /\ OnePlace' /\ ListenerFirst' /\ Slot!TableMatchesOpen' /\ Slot!NeverBlocks'
    BY <1>1, <1>5, TableStays DEF SlotTypes, OnePlace, Queued, ListenerFirst, Slot!NeverBlocks
  <2>2. \A fd : Slot!Readable(fd) => Slot!Readable(fd)'
    BY <1>5 DEF Slot!Readable
  <2>3. \A i \in 0 .. Slots - 1 : i >= at' /\ slots'[i] \in report' => Slot!Readable(slots[i])'
    BY <1>1, <1>2, <1>5, <2>2 DEF Slot!Readable
  <2> QED
    BY <1>1, <1>2, <1>5, <2>1, <2>3 DEF StillReady
<1>6. CASE slots[at] = Listener /\ Listener \in report
  <2>1. at = 0
    BY <1>1, <1>3, <1>6 DEF InTable, ListenerFirst
  <2>2. backlog # <<>>
    BY <1>1, <1>2, <1>6 DEF Slot!Readable
  <2>3. Slot!Accept(Slot!PutInTable(Slot!NewFd))
    BY <1>6 DEF Slot!SelectDispatch, Slot!SelectAccepter
  <2>4. /\ SlotTypes' /\ OnePlace' /\ ListenerFirst' /\ Slot!TableMatchesOpen' /\ Slot!NeverBlocks'
        /\ \A i \in 0 .. Slots - 1 :
             slots'[i] = slots[i] \/ (slots[i] = Slot!Free /\ slots'[i] \in Fds[kind] /\ open[slots'[i]] = {})
        /\ \A fd \in Fds[kind] : Slot!Readable(fd) => Slot!Readable(fd)'
    BY <1>1, <2>2, <2>3, AcceptIntoTable
  <2>5. ASSUME NEW i \in 0 .. Slots - 1, i >= at', slots'[i] \in report' PROVE Slot!Readable(slots[i])'
    <3>1. slots'[i] = slots[i]
      BY <1>1, <1>2, <2>1, <2>4, <2>5
    <3>2. slots[i] \in Fds[kind]
      BY <1>1, <1>2, <1>3, <1>4, <1>6, <2>1, <2>5, <3>1 DEF InTable
    <3>3. Slot!Readable(slots[i])
      BY <1>1, <1>2, <2>5, <3>1
    <3> QED
      BY <2>4, <3>1, <3>2, <3>3 DEF Slot!Readable
  <2> QED
    BY <1>1, <1>2, <2>4, <2>5 DEF StillReady
<1>7. CASE slots[at] \in Fds[kind] /\ slots[at] \in report
  <2>1. Slot!Readable(slots[at])
    BY <1>1, <1>2, <1>7
  <2>2. Slot!Receive(slots[at], slots' = [slots EXCEPT ![at] = Slot!Free] /\ UNCHANGED interest)
    BY <1>7 DEF Slot!SelectDispatch, Slot!SelectRecver
  <2>3. CASE /\ UNCHANGED <<pc, slots, interest, open, backlog>>
             /\ peer' = [c \in Clients |-> IF c \in open[slots[at]] THEN [peer[c] EXCEPT !.data = 0] ELSE peer[c]]
    <3>1. /\ SlotTypes' /\ OnePlace' /\ ListenerFirst' /\ Slot!TableMatchesOpen' /\ Slot!NeverBlocks'
          /\ \A g \in Fds[kind] \cup {Listener} : g # slots[at] /\ Slot!Readable(g) => Slot!Readable(g)'
      BY <1>1, <1>7, <2>3, ReadKeeps
    <3>2. ASSUME NEW i \in 0 .. Slots - 1, i >= at', slots'[i] \in report' PROVE Slot!Readable(slots[i])'
      <4>1. slots'[i] = slots[i] /\ slots[i] # slots[at] /\ slots[i] \in Fds[kind] \cup {Listener}
        BY <1>1, <1>2, <1>3, <1>4, <2>3, <3>2 DEF InTable
      <4>2. Slot!Readable(slots[i])
        BY <1>1, <1>2, <3>2, <4>1
      <4> QED
        BY <3>1, <4>1, <4>2 DEF Slot!Readable
    <3> QED
      BY <1>1, <1>2, <3>1, <3>2 DEF StillReady
  <2>4. CASE /\ UNCHANGED <<pc, interest, backlog, peer>>
             /\ slots' = [slots EXCEPT ![at] = Slot!Free] /\ open' = [open EXCEPT ![slots[at]] = {}]
    <3>1. SlotTypes' /\ OnePlace' /\ ListenerFirst' /\ Slot!TableMatchesOpen' /\ Slot!NeverBlocks'
      BY <1>1, <1>7, <2>4, CloseInTable
    <3>2. \A g \in Fds[kind] \cup {Listener} : g # slots[at] /\ Slot!Readable(g) => Slot!Readable(g)'
      BY <1>1, <1>7, <2>4, CloseLeavesOthers
    <3>3. ASSUME NEW i \in 0 .. Slots - 1, i >= at', slots'[i] \in report' PROVE Slot!Readable(slots[i])'
      <4>1. slots'[i] = slots[i]
        BY <1>1, <2>4, <3>3 DEF SlotTypes
      <4>2. slots[i] # slots[at] /\ slots[i] \in Fds[kind] \cup {Listener}
        BY <1>1, <1>2, <1>3, <1>4, <1>7, <3>3, <4>1 DEF InTable
      <4>3. Slot!Readable(slots[i])
        BY <1>1, <1>2, <3>3, <4>1
      <4> QED
        BY <3>2, <4>1, <4>2, <4>3 DEF Slot!Readable
    <3> QED
      BY <1>1, <1>2, <3>1, <3>3 DEF StillReady
  <2>5. slots[at] # Slot!Free /\ UNCHANGED backlog
    BY <1>7, <2>2 DEF Slot!Receive
  <2> QED
    BY <2>1, <2>2, <2>3, <2>4, <2>5 DEF Slot!Receive
<1>8. CASE slots[at] = Slot!Free /\ Alias \in report
  <2>1. Slot!Receive(Slot!Free, slots' = [slots EXCEPT ![at] = Slot!Free] /\ UNCHANGED interest)
    BY <1>8 DEF Slot!SelectDispatch, Slot!SelectRecver
  <2>2. slots' = slots
    BY <1>1, <1>8, <2>1 DEF Slot!Receive, SlotTypes
  <2>3. UNCHANGED <<pc, slots, interest, open, backlog, peer>>
    BY <2>1, <2>2 DEF Slot!Receive
  <2> QED
    BY <2>3, <1>5
<1>9. \/ UNCHANGED <<pc, slots, interest, open, backlog, peer>>
      \/ (IF slots[at] = Slot!Free THEN Alias ELSE slots[at]) \in report
  BY DEF Slot!SelectDispatch
<1> QED
  BY <1>1, <1>4, <1>5, <1>6, <1>7, <1>8, <1>9

\* A turn of poll's Dispatcher.  What it reported are slots: one that was free is not
\* among them, whatever it holds when its turn comes.
LEMMA PollKeeps ==
  ASSUME Slot!SlotConstants, SlotInv, Slot!PollDispatch
  PROVE  SlotInv'
<1> USE DEF SlotInv
<1> Slot!Free # Listener /\ Slot!Free \notin Fds[kind] /\ Listener \notin Fds[kind] /\ 0 \in 0 .. Slots - 1
  BY Descriptors DEF SlotTypes
<1>1. /\ pc = "dispatch" /\ kind = "poll" /\ at \in 0 .. Slots - 1 /\ at' = at + 1 /\ at' \in Nat
      /\ kind' = kind /\ report' = report
  BY DEF Slot!PollDispatch, SlotTypes, Slot!SlotConstants
<1>2. \A i \in 0 .. Slots - 1 : i >= at /\ i \in report => slots[i] # Slot!Free /\ Slot!Readable(slots[i])
  BY <1>1 DEF StillReady
<1>3. InTable
  BY <1>1, TableGives
<1>4. \A i \in 0 .. Slots - 1 : slots[i] \in Fds[kind] \cup {Listener, Slot!Free}
  BY DEF SlotTypes
<1>5. CASE at \notin report
  <2>1. UNCHANGED <<pc, slots, interest, open, backlog, peer>>
    BY <1>5 DEF Slot!PollDispatch
  <2>2. SlotTypes' /\ OnePlace' /\ ListenerFirst' /\ Slot!TableMatchesOpen' /\ Slot!NeverBlocks'
    BY <1>1, <2>1, TableStays DEF SlotTypes, OnePlace, Queued, ListenerFirst, Slot!NeverBlocks
  <2>3. \A i \in 0 .. Slots - 1 : i >= at' /\ i \in report' => slots'[i] # Slot!Free /\ Slot!Readable(slots[i])'
    BY <1>1, <1>2, <2>1 DEF Slot!Readable
  <2> QED
    BY <1>1, <2>2, <2>3 DEF StillReady
<1>6. CASE at \in report /\ slots[at] = Listener
  <2>1. at = 0
    BY <1>1, <1>3, <1>6 DEF InTable, ListenerFirst
  <2>2. backlog # <<>>
    BY <1>1, <1>2, <1>6 DEF Slot!Readable
  <2>3. Slot!Accept(Slot!PutInTable(Slot!NewFd))
    BY <1>6 DEF Slot!PollDispatch, Slot!PollAccepter
  <2>4. /\ SlotTypes' /\ OnePlace' /\ ListenerFirst' /\ Slot!TableMatchesOpen' /\ Slot!NeverBlocks'
        /\ \A i \in 0 .. Slots - 1 :
             slots'[i] = slots[i] \/ (slots[i] = Slot!Free /\ slots'[i] \in Fds[kind] /\ open[slots'[i]] = {})
        /\ \A fd \in Fds[kind] : Slot!Readable(fd) => Slot!Readable(fd)'
    BY <1>1, <2>2, <2>3, AcceptIntoTable
  <2>5. ASSUME NEW i \in 0 .. Slots - 1, i >= at', i \in report'
        PROVE  slots'[i] # Slot!Free /\ Slot!Readable(slots[i])'
    <3>1. slots[i] # Slot!Free /\ Slot!Readable(slots[i])
      BY <1>1, <1>2, <2>5
    <3>2. slots'[i] = slots[i]
      BY <2>4, <3>1
    <3>3. slots[i] \in Fds[kind]
      BY <1>1, <1>3, <1>4, <1>6, <2>1, <2>5, <3>1 DEF InTable
    <3> QED
      BY <2>4, <3>1, <3>2, <3>3 DEF Slot!Readable
  <2> QED
    BY <1>1, <2>4, <2>5 DEF StillReady
<1>7. CASE at \in report /\ slots[at] \in Fds[kind]
  <2>1. Slot!Readable(slots[at])
    BY <1>1, <1>2, <1>7
  <2>2. Slot!Receive(slots[at], slots' = [slots EXCEPT ![at] = Slot!Free] /\ UNCHANGED interest)
    BY <1>7 DEF Slot!PollDispatch, Slot!PollRecver
  <2>3. ASSUME NEW i \in 0 .. Slots - 1, i >= at', i \in report'
        PROVE  /\ i # at /\ slots[i] \in Fds[kind] \cup {Listener} /\ slots[i] # slots[at]
               /\ slots[i] # Slot!Free /\ Slot!Readable(slots[i])
    BY <1>1, <1>2, <1>3, <1>4, <2>3 DEF InTable
  <2>4. CASE /\ UNCHANGED <<pc, slots, interest, open, backlog>>
             /\ peer' = [c \in Clients |-> IF c \in open[slots[at]] THEN [peer[c] EXCEPT !.data = 0] ELSE peer[c]]
    <3>1. /\ SlotTypes' /\ OnePlace' /\ ListenerFirst' /\ Slot!TableMatchesOpen' /\ Slot!NeverBlocks'
          /\ \A g \in Fds[kind] \cup {Listener} : g # slots[at] /\ Slot!Readable(g) => Slot!Readable(g)'
      BY <1>1, <1>7, <2>4, ReadKeeps
    <3>2. ASSUME NEW i \in 0 .. Slots - 1, i >= at', i \in report'
          PROVE  slots'[i] # Slot!Free /\ Slot!Readable(slots[i])'
      BY <2>3, <2>4, <3>1, <3>2 DEF Slot!Readable
    <3> QED
      BY <1>1, <3>1, <3>2 DEF StillReady
  <2>5. CASE /\ UNCHANGED <<pc, interest, backlog, peer>>
             /\ slots' = [slots EXCEPT ![at] = Slot!Free] /\ open' = [open EXCEPT ![slots[at]] = {}]
    <3>1. SlotTypes' /\ OnePlace' /\ ListenerFirst' /\ Slot!TableMatchesOpen' /\ Slot!NeverBlocks'
      BY <1>1, <1>7, <2>5, CloseInTable
    <3>2. \A g \in Fds[kind] \cup {Listener} : g # slots[at] /\ Slot!Readable(g) => Slot!Readable(g)'
      BY <1>1, <1>7, <2>5, CloseLeavesOthers
    <3>3. ASSUME NEW i \in 0 .. Slots - 1, i >= at', i \in report'
          PROVE  slots'[i] # Slot!Free /\ Slot!Readable(slots[i])'
      <4>1. slots'[i] = slots[i]
        BY <2>3, <2>5, <3>3 DEF SlotTypes
      <4> QED
        BY <2>3, <3>2, <3>3, <4>1 DEF Slot!Readable
    <3> QED
      BY <1>1, <3>1, <3>3 DEF StillReady
  <2>6. slots[at] # Slot!Free /\ UNCHANGED backlog
    BY <1>7, <2>2 DEF Slot!Receive
  <2> QED
    BY <2>1, <2>2, <2>4, <2>5, <2>6 DEF Slot!Receive
<1> QED
  BY <1>1, <1>2, <1>4, <1>5, <1>6, <1>7

\* An event of epoll's, in any order: each is for a descriptor of its own.
LEMMA EpollKeeps ==
  ASSUME Slot!SlotConstants, SlotInv, Slot!EpollDispatch
  PROVE  SlotInv'
<1> USE DEF SlotInv
<1> Listener \notin Fds[kind]
  BY Descriptors DEF SlotTypes
<1>1. PICK fd \in report : /\ IF fd = Listener THEN Slot!EpollAccepter ELSE Slot!EpollRecver(fd)
                           /\ report' = report \ {fd}
  BY DEF Slot!EpollDispatch
<1>2. /\ pc = "dispatch" /\ kind = "epoll" /\ UNCHANGED <<kind, at>>
      /\ report \subseteq interest /\ \A g \in report : Slot!Readable(g)
      /\ interest \subseteq Fds[kind] \cup {Listener}
  BY DEF Slot!EpollDispatch, StillReady, SlotTypes
<1>3. interest = {g \in Fds[kind] : open[g] # {}} \cup {Listener}
  BY <1>2 DEF Slot!TableMatchesOpen
<1>4. CASE fd = Listener
  <2>1. backlog # <<>> /\ Slot!Accept(Slot!PutInInterest(Slot!NewFd))
    BY <1>1, <1>2, <1>4 DEF Slot!Readable, Slot!EpollAccepter
  <2>2. CASE Slot!FreeFds = {}
    <3>1. UNCHANGED <<kind, at, pc, slots, interest, open, backlog, peer>>
      BY <1>2, <2>1, <2>2 DEF Slot!Accept
    <3>2. SlotTypes' /\ OnePlace' /\ ListenerFirst' /\ Slot!TableMatchesOpen' /\ Slot!NeverBlocks'
      BY <3>1, TableStays DEF SlotTypes, OnePlace, Queued, ListenerFirst, Slot!NeverBlocks
    <3>3. report' \subseteq interest' /\ \A g \in report' : Slot!Readable(g)'
      BY <1>1, <1>2, <3>1 DEF Slot!Readable
    <3> QED
      BY <1>2, <3>2, <3>3 DEF StillReady
  <2>3. CASE Slot!FreeFds # {}
    <3>1. /\ UNCHANGED <<pc, slots, peer>> /\ backlog' = Tail(backlog)
          /\ interest' = interest \cup {Slot!NewFd}
          /\ open' = [open EXCEPT ![Slot!NewFd] = {Head(backlog)}]
      BY <2>1, <2>3 DEF Slot!Accept, Slot!PutInInterest
    <3>2. Slot!NewFd \in Fds[kind] /\ open[Slot!NewFd] = {} /\ backlog' \in Seq(Clients)
      BY <2>1, <2>3, <3>1, NewFdIsFree, HeadLeaves
    <3>3. /\ open' \in [Fds[kind] -> SUBSET Clients] /\ OnePlace'
          /\ \A g \in Fds[kind] : (open'[g] # {}) <=> (open[g] # {} \/ g = Slot!NewFd)
          /\ \A g \in Fds[kind] : Slot!Readable(g) => Slot!Readable(g)'
      BY <1>2, <2>1, <2>3, <3>1, OpenKeeps
    <3>4. SlotTypes' /\ ListenerFirst' /\ Slot!NeverBlocks'
      BY <1>2, <3>1, <3>2, <3>3 DEF SlotTypes, ListenerFirst, Slot!NeverBlocks
    <3>5. Slot!TableMatchesOpen'
      <4>1. interest' = {g \in Fds[kind] : open'[g] # {}} \cup {Listener}
        BY <1>3, <3>1, <3>2, <3>3
      <4> QED
        BY <1>2, <4>1 DEF Slot!TableMatchesOpen
    <3>6. report' \subseteq interest' /\ \A g \in report' : Slot!Readable(g)'
      BY <1>1, <1>2, <1>4, <3>1, <3>3
    <3> QED
      BY <1>2, <3>3, <3>4, <3>5, <3>6 DEF StillReady
  <2> QED
    BY <2>2, <2>3
<1>5. CASE fd # Listener
  <2>1. fd \in Fds[kind] /\ Slot!Readable(fd) /\ fd # Slot!Free
    BY <1>2, <1>5 DEF Slot!SlotConstants, SlotTypes, Slot!Free
  <2>2. Slot!Receive(fd, interest' = interest \ {fd} /\ UNCHANGED slots)
    BY <1>1, <1>5 DEF Slot!EpollRecver
  <2>3. CASE /\ UNCHANGED <<pc, slots, interest, open, backlog>>
             /\ peer' = [c \in Clients |-> IF c \in open[fd] THEN [peer[c] EXCEPT !.data = 0] ELSE peer[c]]
    <3>1. at' \in Nat
      BY <1>2 DEF SlotTypes
    <3>2. /\ SlotTypes' /\ OnePlace' /\ ListenerFirst' /\ Slot!TableMatchesOpen' /\ Slot!NeverBlocks'
          /\ \A g \in Fds[kind] \cup {Listener} : g # fd /\ Slot!Readable(g) => Slot!Readable(g)'
      BY <1>2, <2>1, <2>3, <3>1, ReadKeeps
    <3>3. report' \subseteq interest' /\ \A g \in report' : Slot!Readable(g)'
      BY <1>1, <1>2, <2>3, <3>2
    <3> QED
      BY <1>2, <3>2, <3>3 DEF StillReady
  <2>4. CASE /\ UNCHANGED <<pc, slots, backlog, peer>>
             /\ interest' = interest \ {fd} /\ open' = [open EXCEPT ![fd] = {}]
    <3>1. SlotTypes' /\ OnePlace' /\ ListenerFirst' /\ Slot!TableMatchesOpen' /\ Slot!NeverBlocks'
      BY <1>2, <2>1, <2>4, CloseInInterest
    <3>2. \A g \in Fds[kind] \cup {Listener} : g # fd /\ Slot!Readable(g) => Slot!Readable(g)'
      BY <1>2, <2>1, <2>4, CloseLeavesOthers
    <3>3. report' \subseteq interest' /\ \A g \in report' : Slot!Readable(g)'
      BY <1>1, <1>2, <2>4, <3>2
    <3> QED
      BY <1>2, <3>1, <3>3 DEF StillReady
  <2> QED
    BY <2>1, <2>2, <2>3, <2>4 DEF Slot!Receive
<1> QED
  BY <1>4, <1>5

-----------------------------------------------------------------------------
\* A stuttering step changes nothing the invariant reads.
LEMMA StutterKeeps == ASSUME SlotInv, UNCHANGED slotVars PROVE SlotInv'
<1>1. UNCHANGED <<kind, pc, slots, interest, report, at, open, backlog, peer>>
  BY DEF slotVars
<1>2. SlotTypes' /\ OnePlace' /\ ListenerFirst' /\ Slot!TableMatchesOpen' /\ Slot!NeverBlocks'
  BY <1>1, TableStays DEF SlotInv, SlotTypes, OnePlace, Queued, ListenerFirst, Slot!NeverBlocks
<1>3. StillReady'
  BY <1>1 DEF SlotInv, StillReady, Slot!Readable
<1> QED
  BY <1>2, <1>3 DEF SlotInv

\* Every step of a server, its kernel or its clients keeps the invariant.
LEMMA SlotNext == ASSUME Slot!SlotConstants, SlotInv, Slot!Next PROVE SlotInv'
<1>1. CASE Slot!Server
  <2>1. CASE Slot!SelectDispatch
    BY <2>1, SelectKeeps
  <2>2. CASE Slot!PollDispatch
    BY <2>2, PollKeeps
  <2>3. CASE Slot!EpollDispatch
    BY <2>3, EpollKeeps
  <2>4. CASE Slot!SelectWait \/ Slot!PollWait \/ Slot!EpollWait \/ Slot!DispatchEnd
    BY <2>4, WaitKeeps
  <2> QED
    BY <1>1, <2>1, <2>2, <2>3, <2>4 DEF Slot!Server
<1>2. CASE Slot!PollError
  BY <1>2, WaitKeeps
<1>3. ASSUME NEW c \in Clients, Slot!Connect(c) \/ Slot!Send(c) \/ Slot!Leave(c) PROVE SlotInv'
  BY <1>3, ClientKeeps
<1> QED
  BY <1>1, <1>2, <1>3 DEF Slot!Next

\* The invariant is one of the specification, in which another program may run instead.
LEMMA SlotInvariant == Spec => []SlotInv
<1>1. Init => SlotInv
  BY SlotAssumption, SlotInit DEF Init
<1>2. [Next]_vars => Slot!Next \/ UNCHANGED slotVars
  BY DEF Next, vars
<1>3. SlotInv /\ [Next]_vars => SlotInv'
  BY <1>2, SlotAssumption, SlotNext, StutterKeeps
<1> QED
  BY <1>1, <1>3, PTL DEF Spec

\* Every variable of the three servers keeps its type.
LEMMA SlotTypeOK == SlotInv => Slot!TypeOK
  BY SlotAssumption DEF SlotInv, SlotTypes, Slot!TypeOK, Slot!SlotConstants

\* Every open connection is watched, in one place, and nothing else is, in each of the
\* three servers.
THEOREM SlotTableMatchesOpen == Spec => []TableMatchesOpen
<1>1. SlotInv => TableMatchesOpen
  BY DEF SlotInv, TableMatchesOpen
<1> QED
  BY <1>1, SlotInvariant, PTL

\* No handler is called on a descriptor that is not ready, so that none blocks the
\* server.
THEOREM SlotNeverBlocks == Spec => []NeverBlocks
<1>1. SlotInv => NeverBlocks
  BY DEF SlotInv, NeverBlocks
<1> QED
  BY <1>1, SlotInvariant, PTL
=============================================================================
