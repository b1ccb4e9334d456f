------------------------------ MODULE UdpEcho -------------------------------
(***************************************************************************)
(* The UDP server of Net/1.Net and its clients, over a network that loses, *)
(* reorders and duplicates datagrams.  A client sends a line and then      *)
(* waits for one datagram, whichever it is, without a timeout.             *)
(***************************************************************************)
EXTENDS Integers, Sequences

CONSTANTS
  Clients,
  Lines,        \* Lines[c]: what the user of c types, "" for an empty line
  MaxLost,      \* bound: datagrams lost
  MaxTwice      \* bound: datagrams delivered twice

VARIABLES
  net,          \* datagrams on their way: [to, peer, text]; to is "server" or "client"
  client,       \* client[c]: [waiting, printed]; printed: the answers, in order
  lost, twice   \* how many datagrams were lost, and delivered twice

vars == <<net, client, lost, twice>>

\* Handle puts a heading before the text.
Handle(text) == "handled:" \o text

\* The sockets exist and the server's is bound.
Init ==
  /\ net = {} /\ lost = 0 /\ twice = 0
  /\ client = [c \in Clients |-> [waiting |-> FALSE, printed |-> <<>>]]

Typed(c) == Len(client[c].printed) + IF client[c].waiting THEN 1 ELSE 0

\* getline, sendto.  Typing one text twice puts two equal datagrams in the
\* network: the lines of a client differ.
Send(c) ==
  /\ ~client[c].waiting /\ Typed(c) < Len(Lines[c])
  /\ net' = net \cup {[to |-> "server", peer |-> c, text |-> Lines[c][Typed(c) + 1]]}
  /\ client' = [client EXCEPT ![c].waiting = TRUE]
  /\ UNCHANGED <<lost, twice>>

\* A datagram arrives and is consumed, or its copy is still to come.
Deliver(d, rest) ==
  \/ rest = net \ {d} /\ UNCHANGED twice
  \/ rest = net /\ twice < MaxTwice /\ twice' = twice + 1

\* Mutant: recvn <= 0 is an error.
RunNotEmpty ==
  \E d \in net : \E rest \in {net, net \ {d}} :
    /\ d.to = "server" /\ Deliver(d, rest)
    /\ net' = IF d.text = "" THEN rest
              ELSE rest \cup {[to |-> "client", peer |-> d.peer, text |-> Handle(d.text)]}
    /\ UNCHANGED <<client, lost>>

\* Mutant: the answer goes to everybody who waits.
RunToAll ==
  \E d \in net : \E rest \in {net, net \ {d}} :
    /\ d.to = "server" /\ Deliver(d, rest)
    /\ net' = rest \cup {[to |-> "client", peer |-> c, text |-> Handle(d.text)]
                            : c \in {c \in Clients : client[c].waiting}}
    /\ UNCHANGED <<client, lost>>

\* One turn of Run: recvfrom, Handle, sendto the address recvfrom gave.
Run ==
  \E d \in net : \E rest \in {net, net \ {d}} :
    /\ d.to = "server" /\ Deliver(d, rest)
    /\ net' = rest \cup {[to |-> "client", peer |-> d.peer, text |-> Handle(d.text)]}
    /\ UNCHANGED <<client, lost>>

\* recvfrom and print: the next datagram, not the answer to the last line.  Every
\* answer has its heading, so that what is received is never empty and is always
\* printed; and a socket that is not connected is told of no error to wake it up.
Receive(c) ==
  /\ client[c].waiting
  /\ \E d \in net : \E rest \in {net, net \ {d}} :
       /\ d.to = "client" /\ d.peer = c /\ Deliver(d, rest) /\ net' = rest
       /\ client' = [client EXCEPT ![c] = [waiting |-> FALSE, printed |-> Append(@.printed, d.text)]]
  /\ UNCHANGED lost

Lose ==
  /\ lost < MaxLost
  /\ \E d \in net : net' = net \ {d}
  /\ lost' = lost + 1
  /\ UNCHANGED <<client, twice>>

Next == Run \/ Lose \/ \E c \in Clients : Send(c) \/ Receive(c)

\* Server and clients run, and what the network does not lose it delivers.
Fairness == WF_vars(Run) /\ \A c \in Clients : WF_vars(Receive(c))

Spec == Init /\ [][Next]_vars /\ Fairness

-----------------------------------------------------------------------------
TypeOK ==
  /\ \A d \in net : d.to \in {"server", "client"} /\ d.peer \in Clients
  /\ \A c \in Clients : client[c].waiting \in BOOLEAN /\ Len(client[c].printed) <= Len(Lines[c])
  /\ lost \in 0 .. MaxLost /\ twice \in 0 .. MaxTwice

\* A client never prints the answer to what another one said or to what it has
\* not said yet, and it is out of step with its questions only after the
\* network delivered something twice: loss and reordering do not do that.
AnswersInStep ==
  \A c \in Clients : \A i \in DOMAIN client[c].printed :
    /\ \E j \in 1 .. i : client[c].printed[i] = Handle(Lines[c][j])
    /\ twice = 0 => client[c].printed[i] = Handle(Lines[c][i])

\* A client waits for ever only when the network lost a datagram or delivered
\* one twice and put it out of step: an empty line is answered too.
OnlyLossStops ==
  \A c \in Clients : client[c].waiting ~> (~client[c].waiting \/ lost + twice > 0)
=============================================================================
