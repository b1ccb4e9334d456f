--------------------------- MODULE ProgramsProofs ---------------------------
(***************************************************************************)
(* The invariants of Programs for any constants: the UDP servers, the      *)
(* shells, the pairs that meet at a FIFO, the pipe and the ticket sale.    *)
(* Every program has an inductive invariant of its own, and a step of      *)
(* another program leaves its variables alone.                             *)
(***************************************************************************)
EXTENDS SlotServerProofs, SequenceTheorems

-----------------------------------------------------------------------------
(***************************************************************************)
(* The UDP echo: only a datagram delivered twice puts a client out of      *)
(* step with its answers.                                                  *)
(***************************************************************************)

\* What a datagram to c that carries the j-th line says, and from c.
LineOf(c, j, to) == IF to = "server" THEN EchoLines[c][j] ELSE Echo!Handle(EchoLines[c][j])

Printable == {Echo!Handle(EchoLines[c][j]) : c \in EchoClients, j \in Nat}

EchoTypes ==
  /\ user \in [EchoClients -> [waiting : BOOLEAN, printed : Seq(Printable)]]
  /\ \A c \in EchoClients : Echo!Typed(c) <= Len(EchoLines[c])
  /\ lost \in 0 .. MaxLost /\ twice \in 0 .. MaxTwice

\* A datagram is about a line its client has typed.
SaidBefore ==
  \A d \in net : /\ d.to \in {"server", "client"} /\ d.peer \in EchoClients
                 /\ \E j \in 1 .. Echo!Typed(d.peer) : d.text = LineOf(d.peer, j, d.to)

\* As long as nothing was delivered twice a client has one datagram under way at
\* most, and only while it waits: its last line or the answer to that.
OneUnderWay ==
  twice = 0 => /\ \A d \in net : /\ user[d.peer].waiting
                                 /\ d.text = LineOf(d.peer, Echo!Typed(d.peer), d.to)
               /\ \A d, e \in net : d.peer = e.peer => d = e

EchoInv == EchoTypes /\ SaidBefore /\ OneUnderWay /\ Echo!AnswersInStep

\* The initial states satisfy the invariant.
LEMMA EchoInit == ASSUME Echo!Init PROVE EchoInv
<1>1. \A c \in EchoClients : Echo!Typed(c) = 0 /\ Len(EchoLines[c]) \in Nat /\ user[c].printed = <<>>
  BY EchoAssumption DEF Echo!Init, Echo!Typed
<1>2. EchoTypes
  BY <1>1, EchoAssumption DEF Echo!Init, EchoTypes
<1> QED
  BY <1>1, <1>2 DEF Echo!Init, EchoInv, SaidBefore, OneUnderWay, Echo!AnswersInStep

\* What Typed counts.
LEMMA TypedCounts ==
  ASSUME EchoTypes, NEW c \in EchoClients
  PROVE  /\ Len(user[c].printed) \in Nat /\ user[c].waiting \in BOOLEAN
         /\ user[c].waiting => Echo!Typed(c) = Len(user[c].printed) + 1
         /\ ~user[c].waiting => Echo!Typed(c) = Len(user[c].printed)
         /\ Echo!Typed(c) \in Nat /\ Len(EchoLines[c]) \in Nat
         /\ DOMAIN user[c].printed = 1 .. Len(user[c].printed)
<1>1. user[c].printed \in Seq(Printable) /\ user[c].waiting \in BOOLEAN
  BY DEF EchoTypes
<1>2. Len(user[c].printed) \in Nat /\ DOMAIN user[c].printed = 1 .. Len(user[c].printed)
  BY <1>1
<1>3. Len(EchoLines[c]) \in Nat
  BY EchoAssumption
<1>4. CASE user[c].waiting
  <2>1. Echo!Typed(c) = Len(user[c].printed) + 1
    BY <1>4 DEF Echo!Typed
  <2> QED
    BY <1>1, <1>2, <1>3, <1>4, <2>1
<1>5. CASE ~user[c].waiting
  <2>1. Echo!Typed(c) = Len(user[c].printed) + 0
    BY <1>5 DEF Echo!Typed
  <2> QED
    BY <1>1, <1>2, <1>3, <1>5, <2>1
<1> QED
  BY <1>4, <1>5

\* A client says its next line.
LEMMA EchoSend ==
  ASSUME EchoInv, NEW c \in EchoClients, Echo!Send(c)
  PROVE  EchoInv'
<1> DEFINE n == Echo!Typed(c) + 1
           d == [to |-> "server", peer |-> c, text |-> EchoLines[c][n]]
<1> USE DEF EchoInv
<1>1. ~user[c].waiting /\ Echo!Typed(c) < Len(EchoLines[c]) /\ net' = net \cup {d}
      /\ user' = [user EXCEPT ![c].waiting = TRUE] /\ UNCHANGED <<lost, twice>>
  BY DEF Echo!Send
<1>2. /\ \A b \in EchoClients : user'[b].printed = user[b].printed
      /\ \A b \in EchoClients : b # c => user'[b] = user[b]
      /\ user'[c].waiting
  BY <1>1 DEF EchoTypes
<1>3. Echo!Typed(c)' = n /\ \A b \in EchoClients : b # c => Echo!Typed(b)' = Echo!Typed(b)
  <2>1. Echo!Typed(c) = Len(user[c].printed) /\ Len(user[c].printed) \in Nat
    BY <1>1, TypedCounts
  <2> QED
    BY <1>2, <2>1 DEF Echo!Typed
<1>4. EchoTypes'
  <2>1. user' \in [EchoClients -> [waiting : BOOLEAN, printed : Seq(Printable)]]
    BY <1>1 DEF EchoTypes
  <2>2. \A b \in EchoClients : Echo!Typed(b)' <= Len(EchoLines[b])
    BY <1>1, <1>3, TypedCounts DEF EchoTypes
  <2> QED
    BY <1>1, <2>1, <2>2 DEF EchoTypes
<1>5. SaidBefore'
  <2> SUFFICES ASSUME NEW e \in net'
               PROVE  /\ e.to \in {"server", "client"} /\ e.peer \in EchoClients
                      /\ \E j \in 1 .. Echo!Typed(e.peer)' : e.text = LineOf(e.peer, j, e.to)
    BY DEF SaidBefore
  <2>1. CASE e = d
    <3>1. n \in 1 .. Echo!Typed(c)' /\ d.text = LineOf(c, n, d.to)
      BY <1>3, TypedCounts DEF LineOf
    <3> QED
      BY <2>1, <3>1
  <2>2. CASE e \in net
    <3>1. Echo!Typed(e.peer) \in Nat /\ Echo!Typed(e.peer) <= Echo!Typed(e.peer)'
      BY <2>2, <1>3, TypedCounts DEF SaidBefore
    <3>2. PICK j \in 1 .. Echo!Typed(e.peer) : e.text = LineOf(e.peer, j, e.to)
      BY <2>2 DEF SaidBefore
    <3>3. j \in 1 .. Echo!Typed(e.peer)'
      BY <3>1, <1>3, TypedCounts, <2>2 DEF SaidBefore
    <3> QED
      BY <2>2, <3>2, <3>3 DEF SaidBefore
  <2> QED
    BY <2>1, <2>2, <1>1
<1>6. OneUnderWay'
  <2> SUFFICES ASSUME twice = 0 PROVE OneUnderWay'
    BY <1>1 DEF OneUnderWay
  <2>1. \A e \in net : e.peer # c /\ e.peer \in EchoClients
    BY <1>1 DEF OneUnderWay, SaidBefore
  <2>2. \A e \in net : user'[e.peer].waiting /\ e.text = LineOf(e.peer, Echo!Typed(e.peer)', e.to)
    BY <2>1, <1>2, <1>3 DEF OneUnderWay
  <2>3. d.text = LineOf(c, Echo!Typed(c)', d.to) /\ d.peer = c
    BY <1>3 DEF LineOf
  <2>4. \A e, f \in net' : e.peer = f.peer => e = f
    BY <1>1, <2>1, <2>3 DEF OneUnderWay
  <2>5. \A e \in net' : user'[e.peer].waiting /\ e.text = LineOf(e.peer, Echo!Typed(e.peer)', e.to)
    BY <1>1, <1>2, <2>2, <2>3
  <2> QED
    BY <2>4, <2>5 DEF OneUnderWay
<1>7. Echo!AnswersInStep'
  BY <1>1, <1>2 DEF Echo!AnswersInStep
<1> QED
  BY <1>4, <1>5, <1>6, <1>7

\* What becomes of the network when a datagram is delivered: it is gone, or the counter
\* says that a copy of it is still to come.
LEMMA Delivered ==
  ASSUME EchoInv, NEW d \in net, NEW rest, Echo!Deliver(d, rest)
  PROVE  /\ rest \subseteq net /\ twice' \in 0 .. MaxTwice
         /\ twice' = 0 => twice = 0 /\ rest = net \ {d}
  BY EchoAssumption DEF Echo!Deliver, EchoInv, EchoTypes

\* The server answers one datagram.
LEMMA EchoRun ==
  ASSUME EchoInv, Echo!Run
  PROVE  EchoInv'
<1> USE DEF EchoInv
<1> PICK d \in net, rest \in SUBSET net :
           /\ d.to = "server" /\ Echo!Deliver(d, rest)
           /\ net' = rest \cup {[to |-> "client", peer |-> d.peer, text |-> Echo!Handle(d.text)]}
           /\ UNCHANGED <<user, lost>>
  BY DEF Echo!Run
<1> DEFINE a == [to |-> "client", peer |-> d.peer, text |-> Echo!Handle(d.text)]
<1>1. d.peer \in EchoClients
  BY DEF SaidBefore
<1>2. \A c \in EchoClients : Echo!Typed(c)' = Echo!Typed(c)
  BY DEF Echo!Typed
<1>3. \A j : d.text = LineOf(d.peer, j, d.to) => a.text = LineOf(d.peer, j, a.to)
  BY DEF LineOf
<1>4. EchoTypes'
  BY <1>2, Delivered DEF EchoTypes
<1>5. SaidBefore'
  <2>1. \E j \in 1 .. Echo!Typed(d.peer) : a.text = LineOf(d.peer, j, a.to)
    BY <1>3 DEF SaidBefore
  <2> QED
    BY <1>1, <1>2, <2>1, Delivered DEF SaidBefore
<1>6. OneUnderWay'
  <2> SUFFICES ASSUME twice' = 0 PROVE OneUnderWay'
    BY DEF OneUnderWay
  <2>1. twice = 0 /\ rest = net \ {d}
    BY Delivered
  <2>2. user[d.peer].waiting /\ a.text = LineOf(d.peer, Echo!Typed(d.peer), a.to)
    BY <1>3, <2>1 DEF OneUnderWay
  <2>3. \A e \in rest : e.peer # d.peer /\ e.peer \in EchoClients
    BY <2>1 DEF OneUnderWay, SaidBefore
  <2>4. \A e, f \in net' : e.peer = f.peer => e = f
    BY <2>1, <2>3 DEF OneUnderWay
  <2>5. \A e \in net' : user[e.peer].waiting /\ e.text = LineOf(e.peer, Echo!Typed(e.peer)', e.to)
    BY <1>1, <1>2, <2>1, <2>2, <2>3 DEF OneUnderWay
  <2> QED
    BY <2>4, <2>5 DEF OneUnderWay
<1>7. Echo!AnswersInStep'
  BY Delivered DEF Echo!AnswersInStep
<1> QED
  BY <1>4, <1>5, <1>6, <1>7

\* A client prints what comes next: one of the lines it has typed, and its last one when
\* nothing was delivered twice.
LEMMA EchoReceive ==
  ASSUME EchoInv, NEW c \in EchoClients, Echo!Receive(c)
  PROVE  EchoInv'
<1> USE DEF EchoInv
<1> PICK d \in net, rest \in SUBSET net :
           /\ d.to = "client" /\ d.peer = c /\ Echo!Deliver(d, rest) /\ net' = rest
           /\ user' = [user EXCEPT ![c] = [waiting |-> FALSE, printed |-> Append(@.printed, d.text)]]
  BY DEF Echo!Receive
<1> DEFINE n == Len(user[c].printed) + 1
<1>1. user[c].waiting /\ lost' = lost
  BY DEF Echo!Receive
<1>2. n \in Nat /\ Echo!Typed(c) = n /\ n <= Len(EchoLines[c])
  BY <1>1, TypedCounts DEF EchoTypes
<1>3. PICK j \in 1 .. n : d.text = Echo!Handle(EchoLines[c][j])
  BY <1>2 DEF SaidBefore, LineOf
<1>4. twice' = 0 => d.text = Echo!Handle(EchoLines[c][n])
  BY <1>2, Delivered DEF OneUnderWay, LineOf
<1>5. d.text \in Printable
  BY <1>2, <1>3 DEF Printable
<1>6. user[c].printed \in Seq(Printable)
  BY DEF EchoTypes
<1>7. /\ user'[c].waiting = FALSE /\ user'[c].printed = Append(user[c].printed, d.text)
      /\ \A b \in EchoClients : b # c => user'[b] = user[b]
  BY DEF EchoTypes
<1>8. /\ user'[c].printed \in Seq(Printable) /\ Len(user'[c].printed) = n
      /\ user'[c].printed[n] = d.text /\ DOMAIN user'[c].printed = 1 .. n
      /\ \A i \in 1 .. n : i # n => i \in DOMAIN user[c].printed /\ user'[c].printed[i] = user[c].printed[i]
  BY <1>2, <1>5, <1>6, <1>7
<1>9. Echo!Typed(c)' = n /\ \A b \in EchoClients : b # c => Echo!Typed(b)' = Echo!Typed(b)
  <2>1. Echo!Typed(c)' = n + 0
    BY <1>7, <1>8 DEF Echo!Typed
  <2>2. \A b \in EchoClients : b # c => Echo!Typed(b)' = Echo!Typed(b)
    BY <1>7 DEF Echo!Typed
  <2> QED
    BY <1>2, <2>1, <2>2
<1>10. EchoTypes'
  <2>1. user' \in [EchoClients -> [waiting : BOOLEAN, printed : Seq(Printable)]]
    BY <1>7, <1>8 DEF EchoTypes
  <2>2. \A b \in EchoClients : Echo!Typed(b)' <= Len(EchoLines[b])
    BY <1>2, <1>9 DEF EchoTypes
  <2> QED
    BY <1>1, <2>1, <2>2, Delivered DEF EchoTypes
<1>11. SaidBefore'
  BY <1>2, <1>9, Delivered DEF SaidBefore
<1>12. OneUnderWay'
  <2> SUFFICES ASSUME twice' = 0 PROVE OneUnderWay'
    BY DEF OneUnderWay
  <2>1. twice = 0 /\ rest = net \ {d}
    BY Delivered
  <2>2. \A e \in rest : e.peer # c /\ e.peer \in EchoClients
    BY <2>1 DEF OneUnderWay, SaidBefore
  <2> QED
    BY <2>1, <2>2, <1>7, <1>9 DEF OneUnderWay
<1>13. Echo!AnswersInStep'
  <2> SUFFICES ASSUME NEW b \in EchoClients, NEW i \in DOMAIN user'[b].printed
               PROVE  /\ \E k \in 1 .. i : user'[b].printed[i] = Echo!Handle(EchoLines[b][k])
                      /\ twice' = 0 => user'[b].printed[i] = Echo!Handle(EchoLines[b][i])
    BY DEF Echo!AnswersInStep
  <2>1. twice' = 0 => twice = 0
    BY Delivered
  <2>2. CASE b # c \/ i # n
    BY <2>1, <2>2, <1>7, <1>8 DEF Echo!AnswersInStep
  <2>3. CASE b = c /\ i = n
    BY <2>3, <1>3, <1>4, <1>8
  <2> QED
    BY <2>2, <2>3
<1> QED
  BY <1>10, <1>11, <1>12, <1>13

\* A datagram that is lost is only missed.
LEMMA EchoLose ==
  ASSUME EchoInv, Echo!Lose \/ UNCHANGED echoVars
  PROVE  EchoInv'
<1>1. net' \subseteq net /\ UNCHANGED <<user, twice>> /\ lost' \in 0 .. MaxLost
  BY EchoAssumption DEF Echo!Lose, echoVars, EchoInv, EchoTypes
<1>2. \A c \in EchoClients : Echo!Typed(c)' = Echo!Typed(c)
  BY <1>1 DEF Echo!Typed
<1>3. EchoTypes' /\ Echo!AnswersInStep'
  BY <1>1, <1>2 DEF EchoInv, EchoTypes, Echo!AnswersInStep
<1>4. SaidBefore'
  BY <1>1, <1>2 DEF EchoInv, SaidBefore
<1>5. OneUnderWay'
  BY <1>1, <1>2 DEF EchoInv, SaidBefore, OneUnderWay
<1> QED
  BY <1>3, <1>4, <1>5 DEF EchoInv

\* The invariant is inductive.
LEMMA EchoStep == ASSUME EchoInv, [Echo!Next]_echoVars PROVE EchoInv'
  BY EchoSend, EchoRun, EchoReceive, EchoLose DEF Echo!Next

-----------------------------------------------------------------------------
(***************************************************************************)
(* The group chat: who is registered hears everything, whatever datagrams  *)
(* are lost or overtake one another.                                       *)
(***************************************************************************)

Datagrams == Chat!Users \X (0 .. MaxChat)

\* TypeOK, with the two variables that only record what happened.
ChatTypes ==
  /\ Chat!TypeOK
  /\ DOMAIN online = Ips
  /\ online \in [Ips -> Chat!Users \cup {Chat!None}]
  /\ heard \in [Chat!Users -> SUBSET Datagrams] /\ before \in [Chat!Users -> SUBSET Datagrams]

\* A datagram has been sent, and the server receives it once at most.
Once ==
  /\ \A d \in arriving \cup handled : d[2] < sender[d[1]]
  /\ arriving \cap handled = {}

\* The table holds an address for every IP that has been heard of, and no other.
Table ==
  /\ \A d \in handled : online[d[1][1]] # Chat!None
  /\ \A ip \in Ips : online[ip] # Chat!None => Chat!Known(online[ip])

\* Nothing is sent on to an address that is not in the table.
Silent == \A c \in Chat!Users : online[c[1]] # c => heard[c] = {}

Past == \A c \in Chat!Users : before[c] \subseteq handled

ChatInv == ChatTypes /\ Once /\ Table /\ Silent /\ Past /\ Chat!RegisteredHears

\* An address is not the empty tuple.
LEMMA ClientIsNotNone == \A c \in Chat!Users : c # Chat!None /\ c[1] \in Ips /\ c \in {c[1]} \X Ports
  BY DEF Chat!Users, Chat!None

\* The initial states satisfy the invariant.
LEMMA ChatInit == ASSUME MaxChat \in Nat, Chat!Init PROVE ChatInv
  BY ClientIsNotNone
  DEF Chat!Init, ChatInv, ChatTypes, Chat!TypeOK, Datagrams, Once, Table, Silent, Past, Chat!RegisteredHears

\* A client that sends adds a datagram with a number of its own.
LEMMA ChatSend ==
  ASSUME MaxChat \in Nat, ChatInv, NEW c \in Chat!Users, Chat!Send(c)
  PROVE  ChatInv'
<1> USE DEF ChatInv
<1>1. <<c, sender[c]>> \in Datagrams
  BY DEF ChatTypes, Chat!TypeOK, Chat!Send, Datagrams
<1>2. <<c, sender[c]>> \notin arriving \cup handled
  BY DEF ChatTypes, Chat!TypeOK, Once
<1>3. ChatTypes'
  BY <1>1 DEF ChatTypes, Chat!TypeOK, Chat!Send, Datagrams
<1>4. Once'
  <2>1. sender'[c] = sender[c] + 1 /\ \A e \in Chat!Users : sender[e] \in Nat /\ sender'[e] \in Nat /\ sender[e] <= sender'[e]
    BY DEF ChatTypes, Chat!TypeOK, Chat!Send
  <2>2. \A d \in arriving \cup handled : d[1] \in Chat!Users /\ d[2] \in Nat
    BY DEF ChatTypes, Chat!TypeOK
  <2>3. \A d \in arriving \cup handled : d[2] < sender'[d[1]]
    BY <2>1, <2>2 DEF Once
  <2> QED
    BY <1>2, <2>1, <2>3 DEF Once, Chat!Send
<1>5. Table' /\ Silent' /\ Past' /\ Chat!RegisteredHears'
  BY DEF Table, Chat!Known, Silent, Past, Chat!RegisteredHears, Chat!Send
<1> QED
  BY <1>3, <1>4, <1>5

\* One turn of the server: who the datagram comes from is registered or was, and
\* every address of the table gains the same datagram.
LEMMA ChatRun ==
  ASSUME MaxChat \in Nat, ChatInv, Chat!Run
  PROVE  ChatInv'
<1> USE DEF ChatInv
<1> PICK d \in arriving : /\ arriving' = arriving \ {d} /\ handled' = handled \cup {d}
                          /\ online' = Chat!CheckUser(d[1])
                          /\ heard' = Chat!Broadcast(d, online')
                          /\ before' = IF Chat!Known(d[1]) THEN before ELSE [before EXCEPT ![d[1]] = handled]
                          /\ UNCHANGED sender
  BY DEF Chat!Run
<1> DEFINE from == d[1]
<1>1. d \in Datagrams /\ from \in Chat!Users /\ d \notin handled
  BY DEF ChatTypes, Chat!TypeOK, Datagrams, Once
<1>2. from[1] \in Ips /\ from # Chat!None
  BY <1>1, ClientIsNotNone
<1>3. \A ip \in Ips : online'[ip] = IF ip = from[1] /\ online[ip] = Chat!None THEN from ELSE online[ip]
  BY <1>2 DEF Chat!CheckUser, ChatTypes
<1>4. \A c \in Chat!Users : heard'[c] = IF online'[c[1]] = c THEN heard[c] \cup {d} ELSE heard[c]
  <2>1. \A ip \in Ips : online'[ip] # Chat!None => online'[ip] \in {ip} \X Ports
    BY <1>1, <1>2, <1>3, ClientIsNotNone DEF ChatTypes, Chat!TypeOK
  <2>2. ASSUME NEW c \in Chat!Users
        PROVE  (\E ip \in Ips : online'[ip] = c) <=> online'[c[1]] = c
    BY <2>1, ClientIsNotNone
  <2> QED
    BY <2>2 DEF Chat!Broadcast
<1>5. \A c \in Chat!Users : before'[c] = IF c = from /\ ~Chat!Known(from) THEN handled ELSE before[c]
  BY <1>1 DEF ChatTypes
<1>6. ChatTypes'
  <2>1. DOMAIN online' = Ips /\ online' \in [Ips -> Chat!Users \cup {Chat!None}]
    BY <1>1, <1>2 DEF Chat!CheckUser, ChatTypes
  <2>2. \A ip \in Ips : online'[ip] = Chat!None \/ online'[ip] \in {ip} \X Ports
    BY <1>1, <1>3, ClientIsNotNone DEF ChatTypes, Chat!TypeOK
  <2>3. Chat!TypeOK'
    BY <2>2, <1>1 DEF ChatTypes, Chat!TypeOK
  <2>4. heard' \in [Chat!Users -> SUBSET Datagrams]
    BY <1>1 DEF Chat!Broadcast, ChatTypes
  <2>5. before' \in [Chat!Users -> SUBSET Datagrams]
    BY <1>1 DEF ChatTypes, Chat!TypeOK, Datagrams
  <2> QED
    BY <2>1, <2>3, <2>4, <2>5 DEF ChatTypes, Datagrams
<1>7. Once'
  BY DEF Once
<1>8. Table'
  <2>1. \A e \in handled' : online'[e[1][1]] # Chat!None
    <3> SUFFICES ASSUME NEW e \in handled' PROVE online'[e[1][1]] # Chat!None
      OBVIOUS
    <3>1. e[1] \in Chat!Users /\ e[1][1] \in Ips
      BY <1>1, ClientIsNotNone DEF ChatTypes, Chat!TypeOK
    <3>2. CASE e = d
      BY <3>2, <1>2, <1>3
    <3>3. CASE e \in handled
      BY <3>1, <3>3, <1>2, <1>3 DEF Table
    <3> QED
      BY <3>2, <3>3
  <2>2. ASSUME NEW ip \in Ips, online'[ip] # Chat!None
        PROVE  \E e \in handled' : e[1] = online'[ip]
    <3>1. CASE online[ip] # Chat!None
      BY <3>1, <1>3 DEF Table, Chat!Known
    <3>2. CASE online[ip] = Chat!None
      BY <2>2, <3>2, <1>3
    <3> QED
      BY <3>1, <3>2
  <2> QED
    BY <2>1, <2>2 DEF Table, Chat!Known
<1>9. Silent'
  <2> SUFFICES ASSUME NEW c \in Chat!Users, online'[c[1]] # c PROVE heard'[c] = {}
    BY DEF Silent
  <2>1. online[c[1]] # c
    BY <1>3, ClientIsNotNone
  <2> QED
    BY <2>1, <1>4 DEF Silent
<1>10. Past'
  BY <1>5 DEF Past
<1>11. Chat!RegisteredHears'
  <2> SUFFICES ASSUME NEW ip \in Ips, online'[ip] # Chat!None
               PROVE  heard'[online'[ip]] = handled' \ before'[online'[ip]]
    BY DEF Chat!RegisteredHears
  <2>1. online'[ip] \in Chat!Users /\ online'[ip][1] = ip
    BY <1>6 DEF ChatTypes, Chat!TypeOK, Chat!Users
  <2>2. CASE online[ip] # Chat!None
    <3>1. online'[ip] = online[ip] /\ Chat!Known(online[ip])
      BY <2>2, <1>3 DEF Table
    <3>2. before'[online[ip]] = before[online[ip]] /\ d \notin before[online[ip]]
      BY <3>1, <2>1, <1>1, <1>5 DEF Past
    <3>3. heard'[online[ip]] = heard[online[ip]] \cup {d}
      BY <3>1, <2>1, <1>4
    <3> QED
      BY <2>2, <3>1, <3>2, <3>3 DEF Chat!RegisteredHears
  <2>3. CASE online[ip] = Chat!None
    <3>1. ip = from[1] /\ online'[ip] = from
      BY <2>3, <1>3
    <3>2. ~Chat!Known(from) /\ online[from[1]] # from
      BY <3>1, <2>3, <1>2 DEF Table, Chat!Known
    <3>3. heard'[from] = {d} /\ before'[from] = handled
      BY <3>1, <3>2, <1>1, <1>4, <1>5 DEF Silent
    <3> QED
      BY <3>1, <3>3, <1>1
  <2> QED
    BY <2>2, <2>3
<1> QED
  BY <1>6, <1>7, <1>8, <1>9, <1>10, <1>11

\* The invariant is inductive.
LEMMA ChatStep == ASSUME MaxChat \in Nat PROVE ChatInv /\ [Chat!Next]_chatVars => ChatInv'
<1> SUFFICES ASSUME ChatInv, [Chat!Next]_chatVars PROVE ChatInv'
  OBVIOUS
<1>1. CASE Chat!Run
  BY <1>1, ChatRun
<1>2. ASSUME NEW c \in Chat!Users, Chat!Send(c) PROVE ChatInv'
  BY <1>2, ChatSend
<1>3. CASE UNCHANGED chatVars
  BY <1>3 DEF chatVars, ChatInv, ChatTypes, Chat!TypeOK, Once, Table, Chat!Known, Silent, Past, Chat!RegisteredHears
<1> QED
  BY <1>1, <1>2, <1>3 DEF Chat!Next

-----------------------------------------------------------------------------
(***************************************************************************)
(* The pairs that meet at a FIFO: the end of main leaves nothing behind,   *)
(* and what every other end of a server leaves stops all later ones.       *)
(***************************************************************************)

\* The places of a server that only 4.sharedmem has.
OnlyShm == {"segment", "closed", "detached"}

\* Until one fails the FIFO is there exactly as long as a server is, and afterwards the
\* FIFO is there and no server; the server's segment is there between CreatShm and
\* RemoveShm, or since one was killed or could not open.
Tidy ==
  /\ failures = {} => (fifo <=> server # "none")
  /\ failures # {} => fifo /\ server = "none"
  /\ segment = "server" => \/ server \in {"opening", "reading", "closed"}
                           \/ failures \cap {"killed", "open"} # {}

\* 3.namedpipe makes no segment, and a client that waits for a reader waits, as long as
\* nothing has failed, for a server that opens; so none is stranded.
PipeClients ==
  pair = "pipe" =>
    /\ server \notin OnlyShm /\ segment # "server"
    /\ \A c \in Clients : /\ client[c] = "opening" /\ failures = {} => server = "opening"
                          /\ client[c] # "stranded"

FifoInv == Fifo!TypeOK /\ pair \in {"pipe", "shm"} /\ Tidy /\ PipeClients

\* The initial states satisfy the invariant.
LEMMA FifoInit == Fifo!InitState /\ pair \in {"pipe", "shm"} => FifoInv
  BY DEF Fifo!InitState, FifoInv, Fifo!TypeOK, Tidy, PipeClients, OnlyShm

\* So does every step: one case per action.
LEMMA FifoStep == FifoInv /\ [Fifo!Next]_fifoVars => FifoInv'
<1> SUFFICES ASSUME FifoInv, [Fifo!Next]_fifoVars PROVE FifoInv'
  OBVIOUS
<1> USE DEF FifoInv, Fifo!TypeOK, Tidy, PipeClients, OnlyShm
<1>1. CASE Fifo!Init_mkfifo
  <2>1. CASE fifo
    <3>1. server' = "none" /\ failures # {} /\ failures' = failures \cup {"mkfifo"}
          /\ UNCHANGED <<pair, dir, fifo, segment, client>>
      BY <1>1, <2>1 DEF Fifo!Init_mkfifo, Fifo!Fail
    <3>2. failures' # {}
      BY <3>1
    <3>3. failures \cap {"killed", "open"} # {} => failures' \cap {"killed", "open"} # {}
      BY <3>1
    <3> QED
      BY <3>1, <3>2, <3>3
  <2>2. CASE ~fifo
    <3>1. failures = {} /\ server = "none" /\ segment # "server"
      BY <1>1, <2>2 DEF Fifo!Init_mkfifo
    <3>2. UNCHANGED <<pair, dir, segment, client, failures>>
      BY <1>1, <2>2 DEF Fifo!Init_mkfifo
    <3>3. CASE UNCHANGED <<server, fifo>>
      BY <3>1, <3>2, <3>3
    <3>4. CASE fifo' = TRUE /\ server' = IF pair = "shm" THEN "segment" ELSE "opening"
      BY <3>1, <3>2, <3>4
    <3> QED
      BY <1>1, <2>2, <3>3, <3>4 DEF Fifo!Init_mkfifo
  <2> QED
    BY <2>1, <2>2
<1>2. CASE Fifo!CreatShm
  BY <1>2 DEF Fifo!CreatShm, Fifo!Fail
<1>3. CASE Fifo!Open
  BY <1>3 DEF Fifo!Open, Fifo!Fail
<1>12. CASE Fifo!OpenError
  BY <1>12 DEF Fifo!OpenError, Fifo!Fail
<1>4. CASE Fifo!ReadEof
  BY <1>4 DEF Fifo!ReadEof
<1>5. CASE Fifo!RemoveShm
  BY <1>5 DEF Fifo!RemoveShm
<1>6. CASE Fifo!Init_unlink
  BY <1>6 DEF Fifo!Init_unlink
<1>7. CASE Fifo!Kill
  BY <1>7 DEF Fifo!Kill, Fifo!Fail
<1>8. ASSUME NEW c \in Clients, Fifo!ClientOpen(c) PROVE FifoInv'
  BY <1>8 DEF Fifo!ClientOpen, Fifo!Reader
<1>9. ASSUME NEW c \in Clients, Fifo!ClientWrite(c) PROVE FifoInv'
  BY <1>9 DEF Fifo!ClientWrite, Fifo!Reader
<1>10. ASSUME NEW c \in Clients, Fifo!ClientLeave(c) PROVE FifoInv'
  BY <1>10 DEF Fifo!ClientLeave
<1>11. CASE UNCHANGED fifoVars
  BY <1>11 DEF fifoVars
<1> QED
  BY <1>1, <1>2, <1>3, <1>4, <1>5, <1>6, <1>7, <1>8, <1>9, <1>10, <1>11, <1>12 DEF Fifo!Next

\* The invariant says what NothingLeftBehind does.
LEMMA FifoImplied == FifoInv => Fifo!NothingLeftBehind
  BY DEF FifoInv, Fifo!TypeOK, Tidy, PipeClients, Fifo!NothingLeftBehind

-----------------------------------------------------------------------------
(***************************************************************************)
(* The pipe and the ticket sale.                                           *)
(***************************************************************************)

\* The initial state of the pipe has its types, and so has what a step leads to.
LEMMA PipeInit == ASSUME Pipe!Init PROVE Pipe!TypeOK
  BY PipeAssumption DEF Pipe!Init, Pipe!TypeOK

LEMMA PipeStep == ASSUME Pipe!TypeOK, [Pipe!Next]_pipeVars PROVE Pipe!TypeOK'
<1> USE PipeAssumption DEF Pipe!TypeOK, Pipe!FatherAt
<1>1. CASE Pipe!Fork
  BY <1>1 DEF Pipe!Fork
<1>2. CASE Pipe!FatherClose \/ Pipe!FatherCloseRead \/ Pipe!Wait
  BY <1>2 DEF Pipe!FatherClose, Pipe!FatherCloseRead, Pipe!Wait
<1>3. CASE Pipe!Read
  BY <1>3 DEF Pipe!Read
<1>4. CASE Pipe!ChildClose
  BY <1>4 DEF Pipe!ChildClose
<1>5. CASE Pipe!ChildEnd
  BY <1>5 DEF Pipe!ChildEnd
<1>6. CASE Pipe!Write /\ readers # {}
  <2>1. pipe < Capacity /\ pipe' = pipe + 1 /\ UNCHANGED <<readers, writers, father, child>>
    BY <1>6 DEF Pipe!Write
  <2> QED
    BY <2>1
<1>7. CASE UNCHANGED pipeVars
  BY <1>7 DEF pipeVars
<1>8. Pipe!Write \/ Pipe!Kill => Pipe!ChildEnd \/ (Pipe!Write /\ readers # {})
  BY DEF Pipe!Write, Pipe!Kill
<1> QED
  BY <1>1, <1>2, <1>3, <1>4, <1>5, <1>6, <1>7, <1>8 DEF Pipe!Next, Pipe!Father, Pipe!Child

\* Where a seller holds the mutex.
Inside == {"test", "print", "take", "leave", "break"}

\* The one in the scope holds the mutex, and the counter it has tested keeps its value.
Guarded ==
  /\ \A t \in Threads : seller[t] \in Inside <=> lock = {t}
  /\ \A t \in Threads : seller[t] \in {"print", "take"} => tickets > 0

Taking == \E t \in Threads : seller[t] = "take"

\* The tickets sold so far are the first ones, each once and in order; one that is printed
\* has not left the counter before its seller takes it.
SoldSoFar ==
  /\ \A i \in 1 .. Len(printed) : printed[i] = Tickets + 1 - i
  /\ Taking => Len(printed) = Tickets - tickets + 1
  /\ ~Taking => Len(printed) = Tickets - tickets

SaleInv == Sale!TypeOK /\ Guarded /\ SoldSoFar

\* The initial state satisfies the invariant.
LEMMA SaleInit == ASSUME Sale!Init PROVE SaleInv
<1>1. Sale!TypeOK
  BY TicketsAssumption DEF Sale!Init, Sale!TypeOK
<1>2. Guarded /\ ~Taking /\ Len(printed) = 0 /\ tickets = Tickets
  BY DEF Sale!Init, Guarded, Inside, Taking
<1> QED
  BY <1>1, <1>2, TicketsAssumption DEF SaleInv, SoldSoFar

\* One thread at a time is in the scope, so that at most one is between the printf and the
\* decrement.
LEMMA SaleStep == ASSUME SaleInv, [Sale!Next]_saleVars PROVE SaleInv'
<1> USE TicketsAssumption DEF SaleInv
<1>1. CASE Sale!Join \/ UNCHANGED saleVars
  <2>1. UNCHANGED <<lock, tickets, seller, printed>> /\ joined' \in {0} \cup Threads
    BY <1>1 DEF Sale!Join, saleVars, Sale!TypeOK
  <2> QED
    BY <2>1 DEF Sale!TypeOK, Guarded, SoldSoFar, Taking
<1>2. ASSUME NEW t \in Threads, Sale!Create(t) \/ Sale!GetTicket(t)
      PROVE  SaleInv'
  <2>0. /\ seller \in [Threads -> {"new", "lock", "test", "print", "take", "leave", "break", "quit"}]
        /\ tickets \in 0 .. Tickets /\ printed \in Seq(0 .. Tickets) /\ lock \subseteq Threads
    BY DEF Sale!TypeOK
  <2>1. CASE Sale!Create(t)
    <3>1. seller[t] = "new" /\ seller' = [seller EXCEPT ![t] = "lock"]
          /\ UNCHANGED <<lock, tickets, printed, joined>>
      BY <2>1 DEF Sale!Create, Sale!At
    <3>2. Taking' <=> Taking
      BY <2>0, <3>1 DEF Taking
    <3> QED
      BY <2>0, <3>1, <3>2 DEF Sale!TypeOK, Guarded, Inside, SoldSoFar
  <2>2. CASE Sale!Lock(t)
    <3>1. seller[t] = "lock" /\ seller' = [seller EXCEPT ![t] = "test"] /\ lock = {} /\ lock' = {t}
          /\ UNCHANGED <<tickets, printed, joined>>
      BY <2>2 DEF Sale!Lock, Sale!At
    <3>2. Taking' <=> Taking
      BY <2>0, <3>1 DEF Taking
    <3> QED
      BY <2>0, <3>1, <3>2 DEF Sale!TypeOK, Guarded, Inside, SoldSoFar
  <2>3. CASE Sale!Test(t)
    <3>1. /\ seller[t] = "test" /\ UNCHANGED <<lock, tickets, printed, joined>>
          /\ seller' = [seller EXCEPT ![t] = IF tickets > 0 THEN "print" ELSE "break"]
      BY <2>3 DEF Sale!Test, Sale!At
    <3>2. Taking' <=> Taking
      BY <2>0, <3>1 DEF Taking
    <3> QED
      BY <2>0, <3>1, <3>2 DEF Sale!TypeOK, Guarded, Inside, SoldSoFar
  <2>4. CASE Sale!Printf(t)
    <3>1. /\ seller[t] = "print" /\ UNCHANGED <<lock, tickets, joined>>
          /\ seller' = [seller EXCEPT ![t] = "take"] /\ printed' = Append(printed, tickets)
      BY <2>4 DEF Sale!Printf, Sale!At
    <3>2. lock = {t} /\ ~Taking /\ tickets > 0
      BY <2>0, <3>1 DEF Guarded, Inside, Taking
    <3>3. Len(printed) = Tickets - tickets
      BY <3>2 DEF SoldSoFar
    <3>4. /\ Len(printed') = Len(printed) + 1 /\ printed'[Len(printed) + 1] = tickets
          /\ \A i \in 1 .. Len(printed) : printed'[i] = printed[i]
          /\ printed' \in Seq(0 .. Tickets)
      BY <2>0, <3>1
    <3>5. ASSUME NEW i \in 1 .. Len(printed') PROVE printed'[i] = Tickets + 1 - i
      <4>1. CASE i = Len(printed) + 1
        BY <4>1, <2>0, <3>3, <3>4
      <4>2. CASE i # Len(printed) + 1
        <5>1. Len(printed) \in Nat /\ i \in 1 .. Len(printed)
          BY <4>2, <2>0, <3>4
        <5> QED
          BY <5>1, <3>4 DEF SoldSoFar
      <4> QED
        BY <4>1, <4>2
    <3>6. Taking'
      BY <2>0, <3>1 DEF Taking
    <3>7. Sale!TypeOK' /\ Guarded'
      BY <2>0, <3>1, <3>2, <3>4 DEF Sale!TypeOK, Guarded, Inside
    <3> QED
      BY <2>0, <3>1, <3>3, <3>4, <3>5, <3>6, <3>7 DEF SoldSoFar
  <2>5. CASE Sale!Take(t)
    <3>1. /\ seller[t] = "take" /\ UNCHANGED <<lock, printed, joined>>
          /\ seller' = [seller EXCEPT ![t] = "leave"] /\ tickets' = tickets - 1
      BY <2>5 DEF Sale!Take, Sale!At
    <3>2. lock = {t} /\ Taking /\ tickets > 0
      BY <2>0, <3>1 DEF Guarded, Inside, Taking
    <3>3. \A s \in Threads : s # t => seller[s] \notin Inside
      BY <2>0, <3>2 DEF Guarded
    <3>4. ~Taking'
      BY <2>0, <3>1, <3>3 DEF Taking, Inside
    <3>5. Sale!TypeOK' /\ Guarded'
      BY <2>0, <3>1, <3>2, <3>3 DEF Sale!TypeOK, Guarded, Inside
    <3> QED
      BY <2>0, <3>1, <3>2, <3>4, <3>5 DEF SoldSoFar
  <2>6. CASE Sale!Unlock(t)
    <3>1. /\ seller[t] \in {"leave", "break"} /\ UNCHANGED <<tickets, printed, joined>> /\ lock' = {}
          /\ seller' = [seller EXCEPT ![t] = IF seller[t] = "leave" THEN "lock" ELSE "quit"]
      BY <2>6 DEF Sale!Unlock, Sale!At
    <3>2. lock = {t}
      BY <2>0, <3>1 DEF Guarded, Inside
    <3>3. Taking' <=> Taking
      BY <2>0, <3>1 DEF Taking
    <3> QED
      BY <2>0, <3>1, <3>2, <3>3 DEF Sale!TypeOK, Guarded, Inside, SoldSoFar
  <2> QED
    BY <1>2, <2>1, <2>2, <2>3, <2>4, <2>5, <2>6 DEF Sale!GetTicket
<1> QED
  BY <1>1, <1>2 DEF Sale!Next

-----------------------------------------------------------------------------
(***************************************************************************)
(* The shells.                                                             *)
(***************************************************************************)

NoRedirection == <<"none", "">>
Redirections == {NoRedirection} \cup {<<l.op, l.file>> : l \in ShellLines}

\* A process in main's loop.
ShellState == [lastcode : Int, redir : Redirections, cwd : Dirs,
               where : {"environ", "myenv", "lost"}, at : Nat]

ShellTypes ==
  /\ version \in Versions /\ input \in Inputs /\ failed \in BOOLEAN /\ eof \in BOOLEAN
  /\ script \in Seq(ShellLines) /\ ran \in Seq(Nat)
  /\ Len(script) <= MaxScript /\ Len(ran) = Len(script)
  /\ shells \in Seq(ShellState)

\* The plain shell has no redirection, and so none to inherit.
PlainHasNone == version = "plain" => \A i \in 1 .. Len(shells) : shells[i].redir = NoRedirection

\* Until an open fails there is one shell, and it has executed what it has read.
OneShell == ~failed => Len(shells) <= 1 /\ \A i \in 1 .. Len(shells) : shells[i].at = Len(script)

\* A shell has read what it has executed, and where its PWD is follows from that.
Knows(s) ==
  /\ s.at <= Len(script)
  /\ s.where = "myenv" => \E i \in 1 .. s.at : Sh!GivesPwd(i)
  /\ s.where = "lost" => \E j \in 1 .. s.at : Sh!TakesPwd(j)

PwdFollows == \A k \in 1 .. Len(shells) : Knows(shells[k])

ShellInv ==
  /\ ShellTypes /\ PlainHasNone /\ OneShell /\ PwdFollows
  /\ Sh!OwnRedirection /\ Sh!LinesRunOnce /\ Sh!OnlyFatalLines

\* The initial states satisfy the invariant.
LEMMA ShellInit == ASSUME Sh!Init PROVE ShellInv
<1> DEFINE s == [lastcode |-> 0, redir |-> <<"none", "">>, cwd |-> Home, where |-> "environ", at |-> 0]
<1>1. s \in ShellState
  BY ShellAssumption DEF ShellState, Redirections, NoRedirection
<1> HIDE DEF s
<1>2. shells = <<s>> /\ shells \in Seq(ShellState) /\ Len(shells) = 1 /\ shells[1] = s
  <2>1. shells = <<s>>
    BY DEF Sh!Init, s
  <2> QED
    BY <1>1, <2>1
<1>3. ShellTypes
  <2>1. /\ version \in Versions /\ input \in Inputs /\ script = <<>> /\ ran = <<>>
        /\ failed = FALSE /\ eof = FALSE
    BY DEF Sh!Init
  <2>2. script \in Seq(ShellLines) /\ ran \in Seq(Nat) /\ Len(script) = 0 /\ Len(ran) = 0
    BY <2>1
  <2>3. Len(script) <= MaxScript /\ Len(ran) = Len(script)
    BY <2>2, ShellAssumption
  <2> QED
    BY <1>2, <2>1, <2>2, <2>3 DEF ShellTypes
<1>4. PlainHasNone /\ OneShell
  <2>1. Len(script) = 0 /\ s.at = 0 /\ s.redir = NoRedirection
    BY DEF Sh!Init, s, NoRedirection
  <2> QED
    BY <1>2, <2>1 DEF PlainHasNone, OneShell
<1>5. Sh!OwnRedirection /\ Sh!LinesRunOnce
  <2>1. started = <<>> /\ ran = <<>>
    BY DEF Sh!Init
  <2>2. DOMAIN ran = {}
    BY <2>1
  <2> QED
    BY <2>1, <2>2 DEF Sh!OwnRedirection, Sh!LinesRunOnce
<1>6. PwdFollows /\ Sh!OnlyFatalLines
  <2>1. s.at = 0 /\ s.where = "environ"
    BY DEF s
  <2>2. script = <<>>
    BY DEF Sh!Init
  <2>3. Len(script) = 0 /\ shells # <<>>
    BY <1>2, <2>2
  <2> QED
    BY <1>2, <2>1, <2>3 DEF PwdFollows, Knows, Sh!OnlyFatalLines
<1> QED
  BY <1>3, <1>4, <1>5, <1>6 DEF ShellInv

\* Line l gives PWD a value, takes it away from a shell in state s, or ends that.
Gives(l) ==
  LET words == Sh!Splitcommand(l) IN
  Sh!BuiltIn(words) /\ words[1] = "export" /\ words[2] = "PWD=x"

Takes(s, l) ==
  LET words == Sh!Splitcommand(l) IN
  Sh!BuiltIn(words) /\ words[1] = "export" /\ words[2] # "PWD=x" /\ (words[2] = "PWD" \/ s.where = "myenv")

Ends(s, l) ==
  LET words == Sh!Splitcommand(l) IN
  words = <<>> \/ (Sh!BuiltIn(words) /\ words[1] = "cd" /\ s.where = "lost")

\* A shell in state s is in state q after line l.
Continues(s, l, q) ==
  /\ q.at = s.at /\ q.redir = s.redir
  /\ \/ q.where = s.where
     \/ q.where = "myenv" /\ Gives(l)
     \/ q.where = "lost" /\ Takes(s, l)

\* What one turn of main's loop for line l, begun in state s, leads to: the same shell in
\* another state, after a program perhaps; the shell's end; or a child that is a shell.
Outcome(s, l) ==
  \/ /\ \E q \in ShellState : Continues(s, l, q) /\ shells' = Sh!SetTop(q)
     /\ UNCHANGED failed /\ (started' = started \/ started' = <<l, s.redir>>)
  \/ Ends(s, l) /\ shells' = Sh!Ended /\ UNCHANGED <<started, failed>>
  \/ shells' = Append(Sh!SetTop(s), s) /\ failed' = TRUE /\ UNCHANGED started

\* What the built-in commands and a program's end make of a shell's state.
LEMMA StateKeeps ==
  ASSUME NEW s \in ShellState
  PROVE  /\ \A d : Sh!Cd(s, d) \in ShellState /\ Sh!Cd(s, d).at = s.at /\ Sh!Cd(s, d).redir = s.redir
                   /\ Sh!Cd(s, d).where = s.where
         /\ \A a : /\ Sh!Export(s, a) \in ShellState /\ Sh!Export(s, a).at = s.at /\ Sh!Export(s, a).redir = s.redir
                   /\ \/ Sh!Export(s, a).where = s.where
                      \/ Sh!Export(s, a).where = "myenv" /\ a = "PWD=x"
                      \/ Sh!Export(s, a).where = "lost" /\ a # "PWD=x" /\ (a = "PWD" \/ s.where = "myenv")
         /\ \A p : Sh!Waited(s, p) \in ShellState /\ Sh!Waited(s, p).at = s.at /\ Sh!Waited(s, p).redir = s.redir
                   /\ Sh!Waited(s, p).where = s.where
         /\ LET z == [s EXCEPT !.lastcode = 0] IN
            z \in ShellState /\ z.at = s.at /\ z.redir = s.redir /\ z.where = s.where
<1>1. \A d : Sh!Cd(s, d) \in ShellState /\ Sh!Cd(s, d).at = s.at /\ Sh!Cd(s, d).redir = s.redir
            /\ Sh!Cd(s, d).where = s.where
  BY DEF Sh!Cd, ShellState
<1>2. ASSUME NEW a
      PROVE  /\ Sh!Export(s, a) \in ShellState /\ Sh!Export(s, a).at = s.at /\ Sh!Export(s, a).redir = s.redir
             /\ \/ Sh!Export(s, a).where = s.where
                \/ Sh!Export(s, a).where = "myenv" /\ a = "PWD=x"
                \/ Sh!Export(s, a).where = "lost" /\ a # "PWD=x" /\ (a = "PWD" \/ s.where = "myenv")
  BY DEF Sh!Export, ShellState
<1>3. \A p : Sh!Waited(s, p) \in ShellState /\ Sh!Waited(s, p).at = s.at /\ Sh!Waited(s, p).redir = s.redir
            /\ Sh!Waited(s, p).where = s.where
  BY ShellAssumption DEF Sh!Waited, ShellState, Sh!Killed
<1>4. LET z == [s EXCEPT !.lastcode = 0] IN
      z \in ShellState /\ z.at = s.at /\ z.redir = s.redir /\ z.where = s.where
  BY DEF ShellState
<1> QED
  BY <1>1, <1>2, <1>3, <1>4

\* Splitcommand and what follows it: one of the outcomes, if the execution of a program is.
LEMMA TurnGives ==
  ASSUME NEW s \in ShellState, NEW l \in ShellLines,
         Sh!Turn(s, l, Sh!ExecutePlain(s, l)) \/ Sh!Turn(s, l, Sh!ExecuteNormally(s, l))
  PROVE  Outcome(s, l)
<1> DEFINE w == Sh!Splitcommand(l)
<1>1. CASE w = <<>> /\ shells' = Sh!Ended /\ UNCHANGED <<started, failed>>
  BY <1>1 DEF Outcome, Ends
<1>2. CASE Sh!BuiltIn(w) /\ Sh!Checkcommand(s, w)
  <2>1. w[1] \in {"cd", "echo", "export"}
    BY <1>2 DEF Sh!BuiltIn
  <2>2. UNCHANGED <<started, failed>>
    BY <1>2 DEF Sh!Checkcommand
  <2> HIDE DEF w
  <2>4. CASE w[1] = "cd" /\ s.where = "lost"
    <3>1. shells' = Sh!Ended
      BY <1>2, <2>4 DEF Sh!Checkcommand
    <3> QED
      BY <1>2, <2>2, <2>4, <3>1 DEF Outcome, Ends, w
  <2>5. CASE w[1] = "cd" /\ s.where # "lost"
    <3>1. shells' = Sh!SetTop(Sh!Cd(s, w[2]))
      BY <1>2, <2>5 DEF Sh!Checkcommand
    <3>2. Continues(s, l, Sh!Cd(s, w[2]))
      BY StateKeeps DEF Continues
    <3> QED
      BY <2>2, <3>1, <3>2, StateKeeps DEF Outcome
  <2>6. CASE w[1] = "export"
    <3>1. shells' = Sh!SetTop(Sh!Export(s, w[2]))
      BY <1>2, <2>6 DEF Sh!Checkcommand
    <3>2. Continues(s, l, Sh!Export(s, w[2]))
      <4>1. w[2] # "PWD=x" /\ (w[2] = "PWD" \/ s.where = "myenv") => Takes(s, l)
        BY <1>2, <2>6 DEF Takes, w
      <4>2. w[2] = "PWD=x" => Gives(l)
        BY <1>2, <2>6 DEF Gives, w
      <4>3. \/ Sh!Export(s, w[2]).where = s.where
            \/ Sh!Export(s, w[2]).where = "myenv" /\ w[2] = "PWD=x"
            \/ Sh!Export(s, w[2]).where = "lost" /\ w[2] # "PWD=x" /\ (w[2] = "PWD" \/ s.where = "myenv")
        BY StateKeeps
      <4>4. Sh!Export(s, w[2]).at = s.at /\ Sh!Export(s, w[2]).redir = s.redir
        BY StateKeeps
      <4> QED
        BY <4>1, <4>2, <4>3, <4>4 DEF Continues
    <3> QED
      BY <2>2, <3>1, <3>2, StateKeeps DEF Outcome
  <2>7. CASE w[1] = "echo" /\ w[2] = "$?"
    <3>1. shells' = Sh!SetTop([s EXCEPT !.lastcode = 0])
      BY <1>2, <2>7 DEF Sh!Checkcommand
    <3>2. Continues(s, l, [s EXCEPT !.lastcode = 0])
      BY StateKeeps DEF Continues
    <3> QED
      BY <2>2, <3>1, <3>2, StateKeeps DEF Outcome
  <2>8. CASE w[1] = "echo" /\ w[2] # "$?"
    <3>1. shells' = Sh!SetTop(s)
      BY <1>2, <2>8 DEF Sh!Checkcommand
    <3> QED
      BY <2>2, <3>1 DEF Outcome, Continues
  <2> QED
    BY <2>1, <2>4, <2>5, <2>6, <2>7, <2>8
<1>3. CASE w # <<>> /\ ~Sh!BuiltIn(w) /\ (Sh!ExecutePlain(s, l) \/ Sh!ExecuteNormally(s, l))
  <2>1. Sh!NoChild(s) => Outcome(s, l)
    BY DEF Sh!NoChild, Outcome, Continues
  <2>2. ASSUME NEW p PROVE Continues(s, l, Sh!Waited(s, p)) /\ Sh!Waited(s, p) \in ShellState
    <3>1. /\ Sh!Waited(s, p) \in ShellState /\ Sh!Waited(s, p).at = s.at /\ Sh!Waited(s, p).redir = s.redir
          /\ Sh!Waited(s, p).where = s.where
      BY StateKeeps, Zenon
    <3> QED
      BY <3>1 DEF Continues
  <2>3. Sh!ExecutePlain(s, l) => Outcome(s, l)
    BY <2>1, <2>2 DEF Sh!ExecutePlain, Outcome
  <2> QED
    BY <1>3, <2>1, <2>3 DEF Sh!ExecuteNormally, Outcome
<1> QED
  BY <1>1, <1>2, <1>3 DEF Sh!Turn

\* The shells after one: the others stay as they were, but for the exit status that one
\* finds when the shell above it has ended.
LEMMA ShellsAfter ==
  ASSUME shells \in Seq(ShellState), shells # <<>>, NEW s \in ShellState
  PROVE  /\ Sh!SetTop(s) \in Seq(ShellState) /\ Len(Sh!SetTop(s)) = Len(shells)
         /\ Sh!SetTop(s)[Len(shells)] = s
         /\ \A i \in 1 .. Len(shells) - 1 : Sh!SetTop(s)[i] = shells[i]
         /\ Sh!Ended \in Seq(ShellState) /\ Len(Sh!Ended) = Len(shells) - 1
         /\ \A i \in 1 .. Len(shells) - 1 : /\ Sh!Ended[i].redir = shells[i].redir
                                            /\ Sh!Ended[i].at = shells[i].at
                                            /\ Sh!Ended[i].where = shells[i].where
<1>1. Len(shells) \in Nat \ {0} /\ Len(shells) \in 1 .. Len(shells)
  BY DEF ShellState
<1>2. /\ Sh!SetTop(s) \in Seq(ShellState) /\ Len(Sh!SetTop(s)) = Len(shells)
      /\ Sh!SetTop(s)[Len(shells)] = s
      /\ \A i \in 1 .. Len(shells) - 1 : Sh!SetTop(s)[i] = shells[i]
  BY <1>1 DEF Sh!SetTop
<1>3. CASE Len(shells) = 1
  BY <1>2, <1>3 DEF Sh!Ended
<1>4. CASE Len(shells) # 1
  <2> DEFINE f == Sh!Front(shells)
             n == Len(shells) - 1
             z == [f[n] EXCEPT !.lastcode = 0]
  <2>1. f \in Seq(ShellState) /\ Len(f) = n /\ n \in 1 .. n /\ n \in Nat
        /\ \A i \in 1 .. n : f[i] = shells[i]
    <3>1. f = SubSeq(shells, 1, n) /\ n \in Nat \ {0} /\ n <= Len(shells)
      BY <1>1, <1>4 DEF Sh!Front
    <3> HIDE DEF f
    <3>2. \A i \in 1 .. n : shells[i] \in ShellState
      BY <3>1
    <3>3. /\ SubSeq(shells, 1, n) \in Seq(ShellState)
          /\ Len(SubSeq(shells, 1, n)) = IF 1 <= n THEN n - 1 + 1 ELSE 0
          /\ \A i \in 1 .. n - 1 + 1 : SubSeq(shells, 1, n)[i] = shells[1 + i - 1]
      <4> HIDE DEF n
      <4>1. 1 \in Int /\ n \in Int
        BY <3>1
      <4> QED
        BY ONLY <3>2, <4>1, SubSeqProperties
    <3> HIDE DEF n
    <3>4. n \in Nat \ {0} /\ n - 1 + 1 = n /\ (\A i \in 1 .. n : 1 + i - 1 = i) /\ n \in 1 .. n
      BY <3>1
    <3>5. \A i \in 1 .. n : f[i] = shells[i]
      BY <3>1, <3>3, <3>4
    <3>6. f \in Seq(ShellState) /\ Len(f) = n
      BY <3>1, <3>3, <3>4
    <3> QED
      BY <3>4, <3>5, <3>6
  <2>2. z \in ShellState /\ z.redir = f[n].redir /\ z.at = f[n].at /\ z.where = f[n].where
    BY <2>1, StateKeeps
  <2>3. Sh!Ended = [f EXCEPT ![n] = z]
    BY <1>4 DEF Sh!Ended
  <2> HIDE DEF f, n, z
  <2>4. Sh!Ended \in Seq(ShellState) /\ Len(Sh!Ended) = n
        /\ \A i \in 1 .. n : Sh!Ended[i] = IF i = n THEN z ELSE f[i]
    BY <2>1, <2>2, <2>3
  <2> QED
    BY <1>2, <2>1, <2>2, <2>4 DEF n
<1> QED
  BY <1>3, <1>4

\* The redirection that a line asks for.
Own(l) == IF version = "plain" \/ l.op = "none" THEN NoRedirection ELSE <<l.op, l.file>>

\* Line i is one turn of main's loop, begun with that redirection and the shell's PWD.
LEMMA LineGives ==
  ASSUME ShellTypes, PlainHasNone, shells # <<>>, NEW i \in Nat, NEW l \in ShellLines, Sh!RunLine(i, l)
  PROVE  /\ \E t \in ShellState : /\ t.at = i /\ t.redir = Own(l) /\ t.where = shells[Len(shells)].where
                                 /\ Outcome(t, l)
         /\ ran' = IF i > Len(ran) THEN Append(ran, 1) ELSE [ran EXCEPT ![i] = @ + 1]
<1> DEFINE n == Len(shells)
           s == [shells[n] EXCEPT !.at = i]
           r == [s EXCEPT !.redir = IF l.op = "none" THEN NoRedirection ELSE <<l.op, l.file>>]
           t == IF version = "plain" THEN s ELSE r
<1>1. n \in Nat \ {0} /\ shells[n] \in ShellState
  BY DEF ShellTypes
<1>2. s \in ShellState /\ s.at = i /\ s.redir = shells[n].redir /\ s.where = shells[n].where
  BY <1>1 DEF ShellState
<1>3. /\ r \in ShellState /\ r.at = i /\ r.where = shells[n].where
      /\ r.redir = IF l.op = "none" THEN NoRedirection ELSE <<l.op, l.file>>
  BY <1>2 DEF ShellState, Redirections
<1>4. r = Sh!Check_redir(s, l) /\ s = [Sh!Top EXCEPT !.at = i]
  BY DEF Sh!Check_redir, Sh!Top, NoRedirection
<1>5. version = "plain" => s.redir = NoRedirection
  BY <1>1, <1>2 DEF PlainHasNone
<1>6. t \in ShellState /\ t.at = i /\ t.redir = Own(l) /\ t.where = shells[n].where
  BY <1>2, <1>3, <1>5 DEF Own
<1>7. Outcome(t, l)
  BY <1>2, <1>3, <1>4, TurnGives DEF Sh!RunLine
<1>8. ran' = IF i > Len(ran) THEN Append(ran, 1) ELSE [ran EXCEPT ![i] = @ + 1]
  BY DEF Sh!RunLine
<1> QED
  BY <1>6, <1>7, <1>8

\* Shells that have just executed line i of the script, the last of them with its own
\* redirection.
LEMMA ShellTurn ==
  ASSUME ShellTypes, PlainHasNone, shells # <<>>, NEW i \in Nat, NEW l \in ShellLines,
         Sh!RunLine(i, l), UNCHANGED version
  PROVE  /\ shells' \in Seq(ShellState) /\ failed' \in BOOLEAN /\ (failed => failed')
         /\ PlainHasNone'
         /\ ~failed' => \A j \in 1 .. Len(shells') : j = Len(shells) => shells'[j].at = i
         /\ ~failed' => Len(shells') <= Len(shells)
         /\ Sh!OwnRedirection => Sh!OwnRedirection'
<1> DEFINE n == Len(shells)
<1>1. n \in Nat \ {0} /\ shells[n] \in ShellState /\ shells \in Seq(ShellState)
  BY DEF ShellTypes
<1> PICK t \in ShellState : t.at = i /\ t.redir = Own(l) /\ Outcome(t, l)
  BY LineGives
<1>2. t.redir \in Redirections
  BY DEF ShellState
<1>9. CASE /\ \E q \in ShellState : Continues(t, l, q) /\ shells' = Sh!SetTop(q)
           /\ UNCHANGED failed /\ (started' = started \/ started' = <<l, t.redir>>)
  <2> PICK q \in ShellState : q.at = t.at /\ q.redir = t.redir /\ shells' = Sh!SetTop(q)
    BY <1>9 DEF Continues
  <2>1. /\ shells' \in Seq(ShellState) /\ Len(shells') = n /\ shells'[n] = q
        /\ \A j \in 1 .. n - 1 : shells'[j] = shells[j]
    BY <1>1, ShellsAfter
  <2>2. PlainHasNone'
    <3> SUFFICES ASSUME version = "plain", NEW j \in 1 .. n PROVE shells'[j].redir = NoRedirection
      BY <2>1 DEF PlainHasNone
    <3>1. CASE j = n
      BY <3>1, <2>1 DEF Own
    <3>2. CASE j # n
      BY <3>2, <1>1, <2>1 DEF PlainHasNone
    <3> QED
      BY <3>1, <3>2
  <2>3. Sh!OwnRedirection => Sh!OwnRedirection'
    <3>1. CASE UNCHANGED started
      BY <3>1 DEF Sh!OwnRedirection
    <3>2. CASE started' = <<l, t.redir>>
      BY <3>2 DEF Sh!OwnRedirection, Own, NoRedirection
    <3> QED
      BY <1>9, <3>1, <3>2
  <2> QED
    BY <1>1, <1>9, <2>1, <2>2, <2>3 DEF ShellTypes
<1>10. CASE shells' = Sh!Ended /\ UNCHANGED <<started, failed>>
  <2>1. /\ shells' \in Seq(ShellState) /\ Len(shells') = n - 1
        /\ \A j \in 1 .. n - 1 : shells'[j].redir = shells[j].redir
    BY <1>1, <1>2, <1>10, ShellsAfter
  <2>2. PlainHasNone'
    BY <1>1, <2>1 DEF PlainHasNone
  <2>3. Sh!OwnRedirection => Sh!OwnRedirection'
    BY <1>10 DEF Sh!OwnRedirection
  <2> QED
    BY <1>1, <1>10, <2>1, <2>2, <2>3 DEF ShellTypes
<1>11. CASE shells' = Append(Sh!SetTop(t), t) /\ failed' = TRUE /\ UNCHANGED started
  <2> DEFINE u == Sh!SetTop(t)
  <2>1. /\ u \in Seq(ShellState) /\ Len(u) = n /\ u[n] = t
        /\ \A j \in 1 .. n - 1 : u[j] = shells[j]
    BY <1>1, ShellsAfter
  <2> HIDE DEF u
  <2>2. /\ shells' \in Seq(ShellState) /\ Len(shells') = n + 1 /\ shells'[n + 1] = t
        /\ \A j \in 1 .. n : shells'[j] = u[j]
    BY <1>1, <1>11, <2>1 DEF u
  <2>3. PlainHasNone'
    <3> SUFFICES ASSUME version = "plain", NEW j \in 1 .. n + 1 PROVE shells'[j].redir = NoRedirection
      BY <2>2 DEF PlainHasNone
    <3>1. CASE j \in {n, n + 1}
      BY <3>1, <1>1, <2>1, <2>2 DEF Own
    <3>2. CASE j \in 1 .. n - 1
      BY <3>2, <1>1, <2>1, <2>2 DEF PlainHasNone
    <3> QED
      BY <1>1, <3>1, <3>2
  <2>4. Sh!OwnRedirection => Sh!OwnRedirection'
    BY <1>11 DEF Sh!OwnRedirection
  <2> QED
    BY <1>11, <2>2, <2>3, <2>4
<1> QED
  BY <1>9, <1>10, <1>11 DEF Outcome

\* After line i of a script, the last one a shell has read, it is known where the PWD of
\* every shell is, and the first shell has ended only if the line is a fatal one.
LEMMA ShellKnows ==
  ASSUME ShellTypes, PlainHasNone, PwdFollows, shells # <<>>, NEW i \in Nat, NEW l \in ShellLines,
         Sh!RunLine(i, l), UNCHANGED version, shells[Len(shells)].at < i,
         i \in 1 .. Len(script'), script'[i] = l, Len(script') \in Nat, Len(script) <= Len(script'),
         \A j \in 1 .. Len(script) : script'[j] = script[j]
  PROVE  PwdFollows' /\ Sh!OnlyFatalLines'
<1> PICK n : n = Len(shells)
  OBVIOUS
<1> PICK p : p = shells[n]
  OBVIOUS
<1>1. n \in Nat \ {0} /\ p \in ShellState /\ shells \in Seq(ShellState) /\ Len(script) \in Nat
  BY DEF ShellTypes
<1>2. p.at \in Nat /\ p.at < i /\ Knows(p)
  BY <1>1 DEF ShellState, PwdFollows
<1>3. /\ \A j \in 1 .. Len(script) : Sh!GivesPwd(j) => Sh!GivesPwd(j)'
      /\ \A j \in 1 .. Len(script) : Sh!TakesPwd(j) => Sh!TakesPwd(j)'
  <2>1. \A j \in 1 .. Len(script) : Sh!Splitcommand(script[j])' = Sh!Splitcommand(script[j])
    BY DEF Sh!Splitcommand
  <2>2. \A j \in 1 .. Len(script) : Sh!GivesPwd(j) => Sh!GivesPwd(j)'
    BY <2>1 DEF Sh!GivesPwd, Sh!BuiltIn
  <2>3. \A j \in 1 .. Len(script) : \A k \in 1 .. j - 1 : k \in 1 .. Len(script)
    BY <1>1
  <2>4. \A j \in 1 .. Len(script) : Sh!TakesPwd(j) => Sh!TakesPwd(j)'
    BY <2>1, <2>2, <2>3 DEF Sh!TakesPwd, Sh!BuiltIn
  <2> QED
    BY <2>2, <2>4
<1>4. ASSUME NEW q \in ShellState, Knows(q) PROVE Knows(q)'
  <2>1. q.at \in Nat /\ 1 .. q.at \subseteq 1 .. Len(script)
    BY <1>1, <1>4 DEF ShellState, Knows
  <2>2. q.at <= Len(script')
    BY <1>1, <1>4, <2>1 DEF Knows
  <2> QED
    BY <1>3, <1>4, <2>1, <2>2 DEF Knows
<1>5. Sh!Splitcommand(script[i])' = Sh!Splitcommand(l)
  BY DEF Sh!Splitcommand
<1>6. 1 .. p.at \subseteq 1 .. i - 1 /\ 1 .. p.at \subseteq 1 .. i /\ i \in 1 .. i
  BY <1>2
<1>7. ASSUME NEW t \in ShellState, t.where = p.where, t.at = i, NEW q \in ShellState, Continues(t, l, q)
      PROVE  Knows(q)'
  <2>1. q.at = i /\ i <= Len(script')
    BY <1>7 DEF Continues
  <2>2. CASE q.where = p.where
    <3>1. Knows(p)'
      BY <1>1, <1>2, <1>4
    <3> QED
      BY <1>6, <2>1, <2>2, <3>1 DEF Knows
  <2>3. CASE q.where = "myenv" /\ Gives(l)
    <3>1. Sh!GivesPwd(i)'
      BY <1>5, <2>3 DEF Gives, Sh!GivesPwd, Sh!BuiltIn
    <3> QED
      BY <1>6, <2>1, <2>3, <3>1 DEF Knows
  <2>4. CASE q.where = "lost" /\ Takes(t, l)
    <3>1. p.where = "myenv" => \E k \in 1 .. i - 1 : Sh!GivesPwd(k)'
      <4>1. Knows(p)'
        BY <1>1, <1>2, <1>4
      <4> QED
        BY <1>6, <4>1 DEF Knows
    <3>2. Sh!TakesPwd(i)'
      BY <1>5, <1>7, <2>4, <3>1 DEF Takes, Sh!TakesPwd, Sh!BuiltIn
    <3> QED
      BY <1>6, <2>1, <2>4, <3>2 DEF Knows
  <2> QED
    BY <1>7, <2>2, <2>3, <2>4 DEF Continues
<1> PICK t \in ShellState : t.at = i /\ t.where = p.where /\ Outcome(t, l)
  BY LineGives
<1>8. ASSUME NEW j \in 1 .. n, NEW q, q.at = shells[j].at, q.where = shells[j].where PROVE Knows(q)'
  <2> PICK o \in ShellState : o = shells[j]
    BY <1>1
  <2>1. Knows(o)'
    BY <1>4 DEF PwdFollows
  <2> QED
    BY <1>8, <2>1 DEF Knows
<1>9. CASE \E q \in ShellState : Continues(t, l, q) /\ shells' = Sh!SetTop(q)
  <2> PICK q \in ShellState : Continues(t, l, q) /\ shells' = Sh!SetTop(q)
    BY <1>9
  <2>1. Len(shells') = n /\ shells'[n] = q /\ \A j \in 1 .. n - 1 : shells'[j] = shells[j]
    BY <1>1, ShellsAfter
  <2>2. Knows(q)'
    BY <1>7
  <2>3. ASSUME NEW j \in 1 .. n PROVE Knows(shells[j])'
    <3>1. CASE j = n
      BY <2>1, <2>2, <3>1 DEF Knows
    <3>2. CASE j # n
      <4>1. j \in 1 .. n - 1
        BY <1>1, <3>2
      <4> PICK o : o = shells[j]
        OBVIOUS
      <4>2. Knows(o)'
        BY <1>8
      <4> QED
        BY <2>1, <4>1, <4>2 DEF Knows
    <3> QED
      BY <3>1, <3>2
  <2>4. shells' # <<>>
    BY <1>1, <2>1
  <2> QED
    BY <2>1, <2>3, <2>4 DEF PwdFollows, Sh!OnlyFatalLines
<1>10. CASE Ends(t, l) /\ shells' = Sh!Ended
  <2>1. Len(shells') = n - 1 /\ \A j \in 1 .. n - 1 : /\ shells'[j].at = shells[j].at
                                                    /\ shells'[j].where = shells[j].where
    BY <1>1, <1>10, ShellsAfter
  <2>2. ASSUME NEW j \in 1 .. n - 1 PROVE Knows(shells[j])'
    <3>1. j \in 1 .. n
      BY <1>1
    <3> PICK o : o = shells'[j]
      OBVIOUS
    <3>2. Knows(o)'
      BY <1>8, <2>1, <3>1
    <3> QED
      BY <3>2 DEF Knows
  <2>3. Sh!Fatal(i)'
    <3>1. p.where = "lost" => \E j \in 1 .. i - 1 : Sh!TakesPwd(j)'
      <4>1. Knows(p)'
        BY <1>1, <1>2, <1>4
      <4> QED
        BY <1>6, <4>1 DEF Knows
    <3> QED
      BY <1>5, <1>10, <3>1 DEF Ends, Sh!Fatal, Sh!BuiltIn
  <2>4. i \in DOMAIN script'
    OBVIOUS
  <2> QED
    BY <1>1, <2>1, <2>2, <2>3, <2>4 DEF PwdFollows, Sh!OnlyFatalLines
<1>11. CASE shells' = Append(Sh!SetTop(t), t)
  <2> PICK u : u = Sh!SetTop(t)
    OBVIOUS
  <2>1. u \in Seq(ShellState) /\ Len(u) = n /\ u[n] = t /\ \A j \in 1 .. n - 1 : u[j] = shells[j]
    BY <1>1, ShellsAfter
  <2>2. /\ Len(shells') = n + 1 /\ shells'[n + 1] = t /\ \A j \in 1 .. n : shells'[j] = u[j]
        /\ shells' # <<>>
    BY <1>1, <1>11, <2>1
  <2>3. Knows(t)'
    BY <1>7 DEF Continues
  <2>4. ASSUME NEW j \in 1 .. n + 1 PROVE Knows(shells[j])'
    <3>1. CASE j \in {n, n + 1}
      <4>1. shells'[j] = t
        BY <1>1, <2>1, <2>2, <3>1
      <4> QED
        BY <2>3, <4>1 DEF Knows
    <3>2. CASE j \in 1 .. n - 1
      <4>1. shells'[j] = shells[j] /\ j \in 1 .. n
        BY <1>1, <2>1, <2>2, <3>2
      <4> PICK o : o = shells[j]
        OBVIOUS
      <4>2. Knows(o)'
        BY <1>8, <4>1
      <4> QED
        BY <4>1, <4>2 DEF Knows
    <3> QED
      BY <1>1, <3>1, <3>2
  <2> QED
    BY <2>2, <2>4 DEF PwdFollows, Sh!OnlyFatalLines
<1> QED
  BY <1>9, <1>10, <1>11 DEF Outcome

\* A line read by a shell.  Only where an open has failed can a shell, and only one that
\* reads a pipe, come upon a line that another one has executed.
LEMMA ShellInteract == ASSUME ShellInv, Sh!Interact PROVE ShellInv'
<1> USE DEF ShellInv
<1> DEFINE i == Sh!Position
           n == Len(shells)
<1>1. shells # <<>> /\ UNCHANGED <<version, input, eof>>
  BY DEF Sh!Interact
<1>2. /\ script \in Seq(ShellLines) /\ ran \in Seq(Nat) /\ Len(ran) = Len(script) /\ Len(script) \in Nat
      /\ Len(script) <= MaxScript /\ n \in Nat \ {0} /\ shells[n] \in ShellState /\ shells \in Seq(ShellState)
      /\ MaxScript \in Nat
  BY <1>1, ShellAssumption DEF ShellTypes
<1>3. i \in Nat \ {0} /\ (input = "terminal" => i = Len(script) + 1) /\ (input # "terminal" => i = shells[n].at + 1)
  <2>1. shells[n].at \in Nat
    BY <1>2 DEF ShellState
  <2> QED
    BY <1>2, <2>1 DEF Sh!Position, Sh!Top
<1>4. ~failed => i = Len(script) + 1
  BY <1>2, <1>3 DEF OneShell
<1>8. shells[n].at \in Nat /\ shells[n].at <= Len(script)
  <2>1. shells[n].at \in Nat
    BY <1>2 DEF ShellState
  <2>2. Knows(shells[n])
    BY <1>2 DEF PwdFollows
  <2> QED
    BY <2>1, <2>2 DEF Knows
<1>7. shells[n].at < i
  BY <1>2, <1>3, <1>8 DEF Sh!Position, Sh!Top
<1> HIDE DEF i, n
<1>5. CASE i <= Len(script)
  <2>1. Sh!RunLine(i, script[i]) /\ UNCHANGED script /\ script[i] \in ShellLines
    BY <1>2, <1>3, <1>5 DEF Sh!Interact, i
  <2>2. failed /\ input = "pipe"
    BY <1>2, <1>3, <1>4, <1>5, ShellAssumption DEF ShellTypes
  <2>3. /\ shells' \in Seq(ShellState) /\ failed' \in BOOLEAN /\ failed'
        /\ PlainHasNone' /\ Sh!OwnRedirection'
        /\ ran' = [ran EXCEPT ![i] = @ + 1]
    BY <1>1, <1>2, <1>3, <1>5, <2>1, <2>2, ShellTurn, LineGives
  <2>4. ran' \in Seq(Nat) /\ Len(ran') = Len(ran)
    BY <1>2, <1>3, <1>5, <2>3
  <2>5. PwdFollows' /\ Sh!OnlyFatalLines'
    <3>1. i \in 1 .. Len(script') /\ script'[i] = script[i] /\ Len(script') \in Nat /\ Len(script) <= Len(script')
      BY <1>2, <1>3, <1>5, <2>1
    <3>2. \A j \in 1 .. Len(script) : script'[j] = script[j]
      BY <2>1
    <3> QED
      BY <1>1, <1>3, <1>7, <2>1, <3>1, <3>2, ShellKnows DEF n
  <2> QED
    BY <1>1, <1>2, <2>1, <2>2, <2>3, <2>4, <2>5 DEF ShellTypes, OneShell, Sh!LinesRunOnce
<1>6. CASE i > Len(script)
  <2>1. PICK l \in ShellLines : script' = Append(script, l) /\ Sh!RunLine(i, l)
    BY <1>2, <1>3, <1>6 DEF Sh!Interact, i
  <2>9. i <= MaxScript
    BY <1>2, <1>3, <1>6 DEF Sh!Interact, i
  <2>2. /\ shells' \in Seq(ShellState) /\ failed' \in BOOLEAN /\ (failed => failed')
        /\ PlainHasNone' /\ Sh!OwnRedirection'
        /\ ran' = Append(ran, 1)
        /\ ~failed' => Len(shells') <= n /\ \A j \in 1 .. Len(shells') : j = n => shells'[j].at = i
    BY <1>1, <1>2, <1>3, <1>6, <2>1, ShellTurn, LineGives DEF n
  <2>10. i = Len(script) + 1
    BY <1>2, <1>3, <1>6, <1>8
  <2>3. script' \in Seq(ShellLines) /\ Len(script') = Len(script) + 1 /\ Len(script') <= MaxScript
    <3>1. script \in Seq(ShellLines) /\ script' = Append(script, l)
      BY <1>2, <2>1
    <3>2. script' \in Seq(ShellLines) /\ Len(script') = Len(script) + 1
      BY <3>1
    <3> QED
      BY <1>2, <2>9, <2>10, <3>2
  <2>8. PwdFollows' /\ Sh!OnlyFatalLines'
    <3>2. /\ i \in 1 .. Len(script') /\ script'[i] = l /\ Len(script') \in Nat /\ Len(script) <= Len(script')
          /\ \A j \in 1 .. Len(script) : script'[j] = script[j]
      BY <1>2, <2>1, <2>3, <2>10
    <3> QED
      BY <1>1, <1>3, <1>7, <2>1, <3>2, ShellKnows DEF n
  <2>4. /\ ran' \in Seq(Nat) /\ Len(ran') = Len(ran) + 1 /\ ran'[Len(ran) + 1] = 1
        /\ \A j \in 1 .. Len(ran) : ran'[j] = ran[j]
    BY <1>2, <2>2
  <2>5. ShellTypes'
    BY <1>1, <1>2, <2>2, <2>3, <2>4 DEF ShellTypes
  <2>6. OneShell'
    <3> SUFFICES ASSUME ~failed' PROVE OneShell'
      BY DEF OneShell
    <3>1. failed \in BOOLEAN /\ ~failed
      BY <2>2 DEF ShellTypes
    <3>2. Len(shells) <= 1
      BY <3>1 DEF OneShell
    <3>3. n \in Nat \ {0} /\ n <= 1
      <4>1. n \in Nat \ {0}
        BY <1>2
      <4>2. n <= 1
        BY <3>2 DEF n
      <4> QED
        BY <4>1, <4>2
    <3>4. Len(shells') \in Nat
      BY <2>2
    <3> QED
      BY <1>4, <2>2, <2>3, <3>1, <3>3, <3>4 DEF OneShell
  <2>7. Sh!LinesRunOnce'
    <3> SUFFICES ASSUME NEW j \in DOMAIN ran', ran'[j] > 1 PROVE failed' /\ input' = "pipe"
      BY DEF Sh!LinesRunOnce
    <3>1. DOMAIN ran = 1 .. Len(ran) /\ DOMAIN ran' = 1 .. Len(ran) + 1 /\ Len(ran) \in Nat
      BY <1>2, <2>4
    <3>2. j # Len(ran) + 1
      BY <2>4
    <3>3. j \in DOMAIN ran /\ ran'[j] = ran[j]
      BY <2>4, <3>1, <3>2
    <3> QED
      BY <1>1, <2>2, <3>3 DEF Sh!LinesRunOnce
  <2> QED
    BY <2>2, <2>5, <2>6, <2>7, <2>8
<1> QED
  BY <1>2, <1>3, <1>5, <1>6

\* What a script says of PWD stays as long as the script does.
LEMMA SameScript ==
  ASSUME UNCHANGED <<version, script>>
  PROVE  /\ \A j : Sh!GivesPwd(j)' <=> Sh!GivesPwd(j)
         /\ \A j : Sh!TakesPwd(j)' <=> Sh!TakesPwd(j)
         /\ \A j : Sh!Fatal(j)' <=> Sh!Fatal(j)
<1>1. ASSUME NEW j PROVE Sh!Splitcommand(script[j])' = Sh!Splitcommand(script[j])
  BY DEF Sh!Splitcommand
<1>2. ASSUME NEW j PROVE Sh!GivesPwd(j)' <=> Sh!GivesPwd(j)
  BY <1>1 DEF Sh!GivesPwd, Sh!BuiltIn
<1>3. ASSUME NEW j PROVE Sh!TakesPwd(j)' <=> Sh!TakesPwd(j)
  BY <1>1, <1>2 DEF Sh!TakesPwd, Sh!BuiltIn
<1>4. ASSUME NEW j PROVE Sh!Fatal(j)' <=> Sh!Fatal(j)
  BY <1>1, <1>3 DEF Sh!Fatal, Sh!BuiltIn
<1> QED
  BY <1>2, <1>3, <1>4

\* The invariant is inductive.
LEMMA ShellStep == ASSUME ShellInv, [Sh!Next]_shellVars PROVE ShellInv'
<1>1. CASE Sh!InteractEof
  <2>1. /\ shells \in Seq(ShellState) /\ shells # <<>> /\ shells' = Sh!Ended /\ eof' = TRUE
        /\ UNCHANGED <<version, input, script, ran, started, failed>>
    BY <1>1 DEF Sh!InteractEof, ShellInv, ShellTypes
  <2>2. Len(shells) \in Nat \ {0} /\ shells[Len(shells)] \in ShellState
    BY <2>1
  <2>3. /\ shells' \in Seq(ShellState) /\ Len(shells') = Len(shells) - 1
        /\ \A j \in 1 .. Len(shells) - 1 : /\ shells'[j].redir = shells[j].redir
                                           /\ shells'[j].at = shells[j].at
                                           /\ shells'[j].where = shells[j].where
    BY <2>1, <2>2, ShellsAfter
  <2>6. PwdFollows' /\ Sh!OnlyFatalLines'
    <3> SUFFICES ASSUME NEW j \in 1 .. Len(shells') PROVE Knows(shells[j])'
      BY <2>1 DEF PwdFollows, Sh!OnlyFatalLines
    <3>1. Knows(shells[j]) /\ shells'[j].at = shells[j].at /\ shells'[j].where = shells[j].where
      BY <2>2, <2>3 DEF ShellInv, PwdFollows
    <3> QED
      BY <2>1, <3>1, SameScript DEF Knows
  <2>4. ShellTypes' /\ Sh!OwnRedirection' /\ Sh!LinesRunOnce'
    BY <2>1, <2>3 DEF ShellInv, ShellTypes, Sh!OwnRedirection, Sh!LinesRunOnce
  <2>5. PlainHasNone' /\ OneShell'
    BY <2>1, <2>2, <2>3 DEF ShellInv, PlainHasNone, OneShell
  <2> QED
    BY <2>4, <2>5, <2>6 DEF ShellInv
<1>2. CASE UNCHANGED shellVars
  <2>1. PwdFollows' /\ Sh!OnlyFatalLines'
    BY <1>2, SameScript DEF shellVars, ShellInv, PwdFollows, Knows, Sh!OnlyFatalLines
  <2> QED
    BY <1>2, <2>1 DEF shellVars, ShellInv, ShellTypes, PlainHasNone, OneShell, Sh!OwnRedirection, Sh!LinesRunOnce
<1> QED
  BY <1>1, <1>2, ShellInteract DEF Sh!Next

-----------------------------------------------------------------------------
(***************************************************************************)
(* The specification: whichever program runs, the invariants of all hold.  *)
(***************************************************************************)

ProgramsInv ==
  SlotInv /\ EchoInv /\ ChatInv /\ ShellInv /\ FifoInv /\ Pipe!TypeOK /\ SaleInv

\* A step is one of each program, or leaves it as it is.
LEMMA ProgramsSteps ==
  ASSUME [Next]_vars
  PROVE  /\ [Slot!Next]_slotVars /\ [Echo!Next]_echoVars /\ [Chat!Next]_chatVars
         /\ [Sh!Next]_shellVars /\ [Fifo!Next]_fifoVars /\ [Pipe!Next]_pipeVars
         /\ [Sale!Next]_saleVars
  BY DEF Next, vars

LEMMA ProgramsInvariant == Spec => []ProgramsInv
<1>1. Init => ProgramsInv
  <2> SUFFICES ASSUME Init PROVE ProgramsInv
    OBVIOUS
  <2>1. Fifo!InitState /\ pair \in {"pipe", "shm"}
    BY FifoAssumption DEF Init, Fifo!InitState
  <2> QED
    BY <2>1, SlotAssumption, ChatAssumption, SlotInit, EchoInit, ChatInit, ShellInit, FifoInit, PipeInit, SaleInit
    DEF Init, ProgramsInv
<1>2. ProgramsInv /\ [Next]_vars => ProgramsInv'
  <2> SUFFICES ASSUME ProgramsInv, [Next]_vars PROVE ProgramsInv'
    OBVIOUS
  <2> USE ProgramsSteps DEF ProgramsInv
  <2>1. SlotInv'
    BY SlotAssumption, SlotNext, StutterKeeps
  <2>2. EchoInv' /\ ChatInv'
    BY ChatAssumption, EchoStep, ChatStep
  <2>3. ShellInv' /\ FifoInv'
    BY ShellStep, FifoStep
  <2>4. Pipe!TypeOK' /\ SaleInv'
    BY PipeStep, SaleStep
  <2> QED
    BY <2>1, <2>2, <2>3, <2>4
<1> QED
  BY <1>1, <1>2, PTL DEF Spec

\* Every variable of every program keeps its type.
THEOREM ProgramsTypeCorrect == Spec => []TypeOK
<1>1. ProgramsInv => TypeOK
  <2> SUFFICES ASSUME ProgramsInv PROVE TypeOK
    OBVIOUS
  <2>1. Slot!TypeOK
    BY SlotTypeOK DEF ProgramsInv
  <2>2. Echo!TypeOK
    <3>1. EchoTypes /\ SaidBefore
      BY DEF ProgramsInv, EchoInv
    <3>2. \A c \in EchoClients : /\ user[c].waiting \in BOOLEAN
                                 /\ Len(user[c].printed) <= Len(EchoLines[c])
      BY <3>1, TypedCounts DEF EchoTypes
    <3> QED
      BY <3>1, <3>2 DEF EchoTypes, SaidBefore, Echo!TypeOK
  <2>3. Chat!TypeOK /\ Fifo!TypeOK /\ Pipe!TypeOK /\ Sale!TypeOK
    BY DEF ProgramsInv, ChatInv, ChatTypes, FifoInv, SaleInv
  <2>4. Sh!TypeOK
    <3>1. ShellTypes
      BY DEF ProgramsInv, ShellInv
    <3>2. \A i \in DOMAIN shells : shells[i] \in ShellState
      BY <3>1 DEF ShellTypes
    <3>3. \A i \in DOMAIN shells : /\ shells[i].lastcode \in Int /\ shells[i].cwd \in Dirs
                                   /\ shells[i].where \in {"environ", "myenv", "lost"}
      BY <3>2 DEF ShellState
    <3> QED
      BY <3>1, <3>3 DEF ShellTypes, Sh!TypeOK
  <2> QED
    BY <2>1, <2>2, <2>3, <2>4 DEF TypeOK
<1> QED
  BY <1>1, ProgramsInvariant, PTL

\* A client of the UDP echo prints answers to lines of its own, already said, and the i-th
\* answer for the i-th line unless a datagram was delivered twice (Run of the server,
\* sendto and recvfrom of the client), for any loss and order.
THEOREM EchoAnswersInStep == Spec => []AnswersInStep
<1>1. ProgramsInv => AnswersInStep
  BY DEF ProgramsInv, EchoInv, AnswersInStep
<1> QED
  BY <1>1, ProgramsInvariant, PTL

\* A registered client hears everything the server receives from its own first
\* datagram on (Run, CheckUser and Broadcast of udpfundesign), for any loss and order.
THEOREM ChatRegisteredHears == Spec => []RegisteredHears
<1>1. ProgramsInv => RegisteredHears
  BY DEF ProgramsInv, ChatInv, RegisteredHears
<1> QED
  BY <1>1, ProgramsInvariant, PTL

\* A program runs with the redirection of its own line, no line is executed twice but after
\* a failed open, from a pipe, and before its input ends only a line without words, or a
\* "cd" after PWD was taken away, ends the shell (main's loop, Splitcommand, Check_redir,
\* Checkcommand and ExecuteNormally), for any script.
THEOREM ShellLinesRunAsTyped == Spec => []LinesRunAsTyped
<1>1. ProgramsInv => LinesRunAsTyped
  BY DEF ProgramsInv, ShellInv, LinesRunAsTyped
<1> QED
  BY <1>1, ProgramsInvariant, PTL

\* A server that comes to the end of main leaves nothing behind, and any other end of one,
\* its exits after mkfifo included, leaves a FIFO for good that no later server starts
\* with (Init, ~Init, CreatShm, GetKey and open of 3.namedpipe and 4.sharedmem).
THEOREM FifoLeavesNothingBehind == Spec => []NothingLeftBehind
<1>1. ProgramsInv => NothingLeftBehind
  BY FifoImplied DEF ProgramsInv, NothingLeftBehind
<1> QED
  BY <1>1, ProgramsInvariant, PTL

\* No two threads are inside the LockGuard's scope, and the tickets they print are the
\* first ones, each once and in order, for any number of threads (GetTicket).
THEOREM SaleSoldInOrder == Spec => [](Guarded /\ SoldSoFar)
<1>1. ProgramsInv => Guarded /\ SoldSoFar
  BY DEF ProgramsInv, SaleInv
<1> QED
  BY <1>1, ProgramsInvariant, PTL
=============================================================================
