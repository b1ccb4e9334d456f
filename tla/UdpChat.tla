------------------------------ MODULE UdpChat -------------------------------
(***************************************************************************)
(* The group chat of Net/1.Net/udpfundesign: a datagram registers the      *)
(* address it comes from, under its IP alone, and is sent on to every      *)
(* registered address.                                                     *)
(***************************************************************************)
EXTENDS Integers

CONSTANTS
  Ips, Ports,   \* a client is an IP and a port; two on one host share the IP
  MaxLines      \* bound: lines a client sends after its welcome

Users == Ips \X Ports
None == <<>>

VARIABLES
  online,       \* online[ip]: the address registered for ip, or None
  sender,       \* sender[c]: datagrams c sent, the welcome included
  net,          \* datagrams on their way to the server: <<c, n>>
  handled,      \* datagrams the server received
  heard,        \* heard[c]: datagrams that were sent on to c
  before        \* before[c]: datagrams handled before c's first one

vars == <<online, sender, net, handled, heard, before>>

\* The server is bound; no client has started.
Init ==
  /\ online = [ip \in Ips |-> None] /\ net = {} /\ handled = {}
  /\ sender = [c \in Users |-> 0]
  /\ heard = [c \in Users |-> {}] /\ before = [c \in Users |-> {}]

\* The client's Send thread: a welcome first, then line after line.  A lost
\* datagram is one that stays in net.
Send(c) ==
  /\ sender[c] <= MaxLines
  /\ net' = net \cup {<<c, sender[c]>>}
  /\ sender' = [sender EXCEPT ![c] = @ + 1]
  /\ UNCHANGED <<online, handled, heard, before>>

\* The table with c in it, if its IP has no address yet.
CheckUser(c) == IF online[c[1]] = None THEN [online EXCEPT ![c[1]] = c] ELSE online

\* What has been sent to whom once d went to every address of the table.
Broadcast(d, table) ==
  [c \in Users |-> IF \E ip \in Ips : table[ip] = c THEN heard[c] \cup {d} ELSE heard[c]]

Known(c) == \E d \in handled : d[1] = c

\* Mutant: the message is sent on before its sender is registered.
RunBroadcastFirst ==
  \E d \in net :
    /\ net' = net \ {d} /\ handled' = handled \cup {d}
    /\ heard' = Broadcast(d, online)
    /\ online' = CheckUser(d[1])
    /\ before' = IF Known(d[1]) THEN before ELSE [before EXCEPT ![d[1]] = handled]
    /\ UNCHANGED sender

\* One turn of Run: recvfrom, CheckUser, Broadcast.
Run ==
  \E d \in net :
    /\ net' = net \ {d} /\ handled' = handled \cup {d}
    /\ online' = CheckUser(d[1])
    /\ heard' = Broadcast(d, online')
    /\ before' = IF Known(d[1]) THEN before ELSE [before EXCEPT ![d[1]] = handled]
    /\ UNCHANGED sender

Next == Run \/ \E c \in Users : Send(c)

Spec == Init /\ [][Next]_vars

-----------------------------------------------------------------------------
TypeOK ==
  /\ \A ip \in Ips : online[ip] = None \/ online[ip] \in {ip} \X Ports
  /\ net \cup handled \subseteq Users \X (0 .. MaxLines)
  /\ sender \in [Users -> 0 .. MaxLines + 1]

\* A registered client hears everything that reaches the server from its own
\* first datagram on, that one included, and nothing older.
RegisteredHears ==
  \A ip \in Ips : online[ip] # None => heard[online[ip]] = handled \ before[online[ip]]
=============================================================================
