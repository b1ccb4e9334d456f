-------------------------- MODULE ConnectionProofs ---------------------------
(***************************************************************************)
(* The servers that give each connection a process or a thread of its      *)
(* own, for any constants: the HTTP server and the calculator.  What they  *)
(* pass on is their own: the descriptor in the cell is that of the thread, *)
(* and the i-th answer in the stream is that of the i-th question, however *)
(* the stream is cut.                                                      *)
(***************************************************************************)
EXTENDS Servers, FiniteSetTheorems, SequenceTheorems, WellFoundedInduction, TLAPS

\* A set of natural numbers has a smallest one, unless it is empty.
LEMMA Smallest ==
  ASSUME NEW S \in SUBSET Nat, S # {}
  PROVE  \E n \in S : \A m \in S : n <= m
<1>1. PICK n \in S : \A m \in S : <<m, n>> \notin OpToRel(<, Nat)
  BY NatLessThanWellFounded, WFMin
<1>2. \A m \in S : ~(m < n)
  BY <1>1 DEF OpToRel
<1> QED
  BY <1>2

-----------------------------------------------------------------------------
(***************************************************************************)
(* The HTTP server.                                                        *)
(***************************************************************************)

\* The urls the server may see.
Urls == {"", "crash"} \cup {Url[l] : l \in DOMAIN Url}

HttpThreads == [pc : {"none", "start", "recv", "send", "close", "done"},
                cell : Cells \cup {Http!None}, fd : Fds \cup {Http!None}, url : Urls]
HttpPeers == [pc : {"new", "open", "closed", "aborted"}, asked : Seq(STRING), data : Seq(STRING),
              answer : {Http!Nothing} \cup {Http!Response(u) : u \in Urls}]

HttpTypes ==
  /\ alive \in BOOLEAN /\ backlog \in Seq(HttpClients)
  /\ open \in [Fds \cup {Http!None} -> SUBSET HttpClients] /\ heap \in [Cells -> Fds \cup {Http!None}]
  /\ handler \in [HttpClients -> HttpThreads] /\ peer \in [HttpClients -> HttpPeers]

\* A client waits in the backlog once at most, before its thread is made.
WaitsOnce ==
  /\ \A i, j \in 1 .. Len(backlog) : backlog[i] = backlog[j] => i = j
  /\ \A i \in 1 .. Len(backlog) : handler[backlog[i]].pc = "none" /\ peer[backlog[i]].pc # "new"
  /\ \A c \in HttpClients : peer[c].pc = "new" => handler[c].pc = "none"

\* The descriptor of c's thread: it is in the cell until the thread has read it.
Runs(c) == handler[c].pc \in {"start", "recv", "send", "close"}
Desc(c) == IF handler[c].pc = "start" THEN heap[handler[c].cell] ELSE handler[c].fd

\* A running thread has a cell, which holds its descriptor, behind which is its own
\* client; and nobody else has a cell.
OwnCell ==
  /\ \A c \in HttpClients : Runs(c) => /\ handler[c].cell \in Cells /\ heap[handler[c].cell] = Desc(c)
                                       /\ Desc(c) \in Fds /\ open[Desc(c)] = {c}
  /\ \A cell \in Cells : heap[cell] # Http!None => \E c \in HttpClients : Runs(c) /\ handler[c].cell = cell

\* A url is that of the request the client has made, and so is an answer.
OwnUrl ==
  \A c \in HttpClients :
    /\ peer[c].data \in {Http!Nothing, peer[c].asked}
    /\ peer[c].answer # Http!Nothing \/ handler[c].pc = "send" => peer[c].asked # Http!Nothing
    /\ handler[c].pc = "send" /\ Len(peer[c].asked) > 1 => handler[c].url = Http!Parse(peer[c].asked)

HttpInv == HttpTypes /\ WaitsOnce /\ OwnCell /\ OwnUrl /\ Http!OwnAnswer

-----------------------------------------------------------------------------
(***************************************************************************)
(* The request line survives whatever a buffer held before.                *)
(***************************************************************************)

\* The first of some places.
LEMMA MinIsLeast ==
  ASSUME NEW I \in SUBSET Nat, I # {}
  PROVE  Http!Min(I) \in I /\ \A i \in I : Http!Min(I) <= i
<1>1. PICK n \in I : \A m \in I : n <= m
  BY Smallest
<1> QED
  BY <1>1 DEF Http!Min

\* Parse looks at the first line only, when there are two.
LEMMA ParsesFirstLine ==
  ASSUME NEW S, NEW text \in Seq(S), Len(text) > 1
  PROVE  Http!Parse(text) = IF text[1] = "" THEN "crash"
                            ELSE IF text[1] \in DOMAIN Url THEN Url[text[1]] ELSE ""
<1> DEFINE I == {i \in 1 .. Len(text) : text[i] = ""}
           n == (IF I = {} THEN Len(text) ELSE Http!Min(I)) - 1
<1>0. Len(text) \in Nat /\ \A i \in 1 .. Len(text) : text[i] \in S
  OBVIOUS
<1>1. 1 .. Len(text) \subseteq Nat /\ 1 \in 1 .. Len(text)
  BY <1>0
<1>a. I \subseteq 1 .. Len(text) /\ (1 \in I <=> text[1] = "")
  BY <1>1, Zenon
<1>b. I # {} => Http!Min(I) \in I /\ \A i \in I : Http!Min(I) <= i
  <2> HIDE DEF I
  <2> QED
    BY <1>1, <1>a, MinIsLeast
<1>2. Http!Deserialize(text) = SubSeq(text, 1, n)
  BY DEF Http!Deserialize
<1>3. CASE text[1] = ""
  <2>1. n = 0
    <3>1. 1 \in I /\ I # {}
      BY <1>a, <1>3, Zenon
    <3>2. Http!Min(I) \in 1 .. Len(text) /\ Http!Min(I) <= 1
      BY <1>a, <1>b, <3>1, Zenon
    <3> HIDE DEF I
    <3>3. Http!Min(I) = 1
      BY <1>0, <3>2
    <3> QED
      BY <3>1, <3>3
  <2>2. SubSeq(text, 1, 0) = <<>>
    BY SubSeqEmpty
  <2> QED
    BY <1>2, <1>3, <2>1, <2>2 DEF Http!Parse
<1>4. CASE text[1] # ""
  <2>1. n \in 1 .. Len(text)
    <3>1. 1 \notin I
      BY <1>a, <1>4, Zenon
    <3>2. I # {} => Http!Min(I) \in 1 .. Len(text) /\ Http!Min(I) # 1
      BY <1>a, <1>b, <3>1, Zenon
    <3> HIDE DEF I
    <3> QED
      BY <1>0, <3>2
  <2> HIDE DEF n
  <2>2. \A i \in 1 .. n : text[i] \in S
    BY <1>0, <2>1
  <2>3. Len(SubSeq(text, 1, n)) = n /\ SubSeq(text, 1, n)[1] = text[1]
    <3>1. 1 \in Int /\ n \in Int /\ 1 \in 1 .. n - 1 + 1 /\ n - 1 + 1 = n /\ 1 + 1 - 1 = 1 /\ 1 <= n
      BY <2>1
    <3> QED
      BY <2>2, <3>1, SubSeqProperties
  <2>4. SubSeq(text, 1, n) # <<>>
    BY <2>1, <2>3
  <2> QED
    BY <1>2, <1>4, <2>3, <2>4 DEF Http!Parse
<1> QED
  BY <1>3, <1>4

\* A first line that is whole is parsed as if nothing were behind it.
LEMMA StaleIsHarmless ==
  ASSUME NEW text \in Seq(STRING), NEW stale \in Seq(STRING), Len(text) > 1
  PROVE  Http!Parse(Http!Joined(text, stale)) = Http!Parse(text)
<1> DEFINE x == Http!Last(text) \o Head(stale)
           S == STRING \cup {x}
<1>1. CASE stale = <<>>
  BY <1>1 DEF Http!Joined, Http!Nothing
<1>2. CASE stale # <<>>
  <2>1. Len(text) \in Nat /\ \A i \in 1 .. Len(text) : text[i] \in S
    OBVIOUS
  <2>2. /\ Http!Front(text) \in Seq(S) /\ Len(Http!Front(text)) = Len(text) - 1
        /\ Http!Front(text)[1] = text[1]
    <3>1. 1 \in Int /\ Len(text) - 1 \in Int /\ 1 <= Len(text) - 1 /\ Len(text) - 1 - 1 + 1 = Len(text) - 1
          /\ 1 \in 1 .. Len(text) - 1 - 1 + 1 /\ 1 + 1 - 1 = 1 /\ \A i \in 1 .. Len(text) - 1 : text[i] \in S
      BY <2>1
    <3> QED
      BY <3>1, SubSeqProperties DEF Http!Front
  <2>3. Tail(stale) \in Seq(S)
    <3>1. stale \in Seq(S)
      OBVIOUS
    <3> QED
      BY <1>2, <3>1, HeadTailProperties
  <2>4. <<x>> \in Seq(S) /\ Len(<<x>>) = 1
    OBVIOUS
  <2> DEFINE start == Http!Front(text) \o <<x>>
             joined == start \o Tail(stale)
  <2> HIDE DEF x, S
  <2>5. start \in Seq(S) /\ Len(start) = Len(text) /\ start[1] = text[1]
    BY <2>1, <2>2, <2>4, ConcatProperties
  <2>6. joined \in Seq(S) /\ Len(joined) > 1 /\ joined[1] = text[1]
    <3>1. Len(Tail(stale)) \in Nat
      BY <2>3
    <3> HIDE DEF start
    <3> QED
      BY <2>1, <2>3, <2>5, <3>1, ConcatProperties
  <2>7. Http!Joined(text, stale) = joined
    BY <1>2 DEF Http!Joined, Http!Nothing, x
  <2> HIDE DEF joined
  <2>8. text \in Seq(STRING) /\ Len(text) > 1
    OBVIOUS
  <2>9. Http!Parse(text) = IF text[1] = "" THEN "crash"
                           ELSE IF text[1] \in DOMAIN Url THEN Url[text[1]] ELSE ""
    BY <2>8, ParsesFirstLine
  <2>10. Http!Parse(joined) = IF joined[1] = "" THEN "crash"
                            ELSE IF joined[1] \in DOMAIN Url THEN Url[joined[1]] ELSE ""
    BY <2>6, ParsesFirstLine
  <2> QED
    BY <2>6, <2>7, <2>9, <2>10
<1> QED
  BY <1>1, <1>2

\* Whatever is in the buffer, what is parsed is a url or nothing.
LEMMA ParseIsUrl == ASSUME NEW text PROVE Http!Parse(text) \in Urls
  BY DEF Http!Parse, Urls

-----------------------------------------------------------------------------

\* Nothing has happened in the initial states.
LEMMA HttpInit == Http!Init => HttpInv
<1> SUFFICES ASSUME Http!Init PROVE HttpInv
  OBVIOUS
<1>1. HttpTypes
  <2>1. <<>> \in Seq(STRING) /\ "" \in Urls
    BY DEF Urls
  <2>2. /\ [pc |-> "none", cell |-> Http!None, fd |-> Http!None, url |-> ""] \in HttpThreads
        /\ [pc |-> "new", asked |-> Http!Nothing, data |-> Http!Nothing, answer |-> Http!Nothing] \in HttpPeers
    BY <2>1 DEF HttpThreads, HttpPeers, Http!Nothing
  <2>3. <<>> \in Seq(HttpClients)
    OBVIOUS
  <2> QED
    BY <2>2, <2>3 DEF Http!Init, HttpTypes
<1>2. WaitsOnce /\ OwnCell
  <2>1. 1 .. Len(<<>>) = {}
    OBVIOUS
  <2> QED
    BY <2>1 DEF Http!Init, WaitsOnce, OwnCell, Runs
<1>3. OwnUrl /\ Http!OwnAnswer
  BY DEF Http!Init, OwnUrl, Http!OwnAnswer
<1> QED
  BY <1>1, <1>2, <1>3 DEF HttpInv

\* accept returns a descriptor that is free.
LEMMA HttpNewFd ==
  ASSUME HttpTypes, \E fd \in Fds : open[fd] = {}
  PROVE  Http!NewFd \in Fds /\ open[Http!NewFd] = {} /\ Http!NewFd # Http!None
<1> DEFINE free == {fd \in Fds : open[fd] = {}}
<1>1. free \subseteq Nat /\ free # {}
  BY HttpAssumption
<1>2. PICK fd \in free : \A other \in free : fd <= other
  BY <1>1, Smallest
<1>3. fd \in Fds /\ open[fd] = {} /\ \A other \in Fds : open[other] = {} => fd <= other
  BY <1>2
<1>4. Http!NewFd \in Fds /\ open[Http!NewFd] = {}
  BY <1>3 DEF Http!NewFd
<1> QED
  BY <1>4, HttpAssumption DEF Http!None

\* new returns a cell that is free: there are not more threads than descriptors.
LEMMA HttpNewCell ==
  ASSUME HttpTypes, OwnCell, \E fd \in Fds : open[fd] = {}
  PROVE  Http!NewCell \in Cells /\ heap[Http!NewCell] = Http!None
<1>1. PICK fd \in Fds : open[fd] = {}
  OBVIOUS
<1>2. SUFFICES ASSUME \A cell \in Cells : heap[cell] # Http!None PROVE FALSE
  BY DEF Http!NewCell
<1>3. \A cell \in Cells : \E c \in HttpClients : Runs(c) /\ handler[c].cell = cell
  BY <1>2 DEF OwnCell
<1>4. \A c \in HttpClients : Runs(c) => heap[handler[c].cell] \in Fds /\ open[heap[handler[c].cell]] = {c}
  BY DEF OwnCell
<1>5. \A cell \in Cells : heap[cell] \in Fds \ {fd}
  BY <1>1, <1>3, <1>4
<1>6. \A x, y \in Cells : heap[x] = heap[y] => x = y
  <2> SUFFICES ASSUME NEW x \in Cells, NEW y \in Cells, heap[x] = heap[y] PROVE x = y
    OBVIOUS
  <2>1. PICK c \in HttpClients : Runs(c) /\ handler[c].cell = x
    BY <1>3
  <2>2. PICK d \in HttpClients : Runs(d) /\ handler[d].cell = y
    BY <1>3
  <2>3. open[heap[x]] = {c} /\ open[heap[y]] = {d}
    BY <1>4, <2>1, <2>2
  <2>4. c = d
    BY <2>3
  <2> QED
    BY <2>1, <2>2, <2>4
<1>7. heap \in [Cells -> Fds \ {fd}]
  BY <1>5 DEF HttpTypes
<1>8. IsFiniteSet(Fds \ {fd}) /\ Cardinality(Fds \ {fd}) = Cardinality(Fds) - 1
  BY HttpAssumption, FS_RemoveElement
<1>9. Cardinality(Fds) \in Nat /\ Cardinality(Cells) \in Nat
  BY HttpAssumption, FS_CardinalityType
<1>10. Cardinality(Fds \ {fd}) < Cardinality(Cells)
  <2>1. Cardinality(Fds) <= Cardinality(Cells)
    BY HttpAssumption
  <2> QED
    BY <1>8, <1>9, <2>1
<1>11. \E x, y \in Cells : x # y /\ heap[x] = heap[y]
  BY <1>7, <1>8, <1>10, FS_PigeonHole, HttpAssumption
<1> QED
  BY <1>6, <1>11

\* A running thread is alone on its descriptor and its cell.
LEMMA Apart ==
  ASSUME OwnCell, NEW c \in HttpClients, NEW d \in HttpClients, c # d, Runs(c), Runs(d)
  PROVE  Desc(c) # Desc(d) /\ handler[c].cell # handler[d].cell
  BY DEF OwnCell

\* accept, new and pthread_create, or what fails of them.
LEMMA HttpRun == ASSUME HttpInv, Http!Run PROVE HttpInv'
<1> HttpTypes /\ WaitsOnce /\ OwnCell /\ OwnUrl /\ Http!OwnAnswer
  BY DEF HttpInv
<1> PICK fd \in Fds : fd = Http!NewFd
  BY HttpNewFd DEF Http!Run
<1> PICK cell \in Cells : cell = Http!NewCell
  BY HttpNewCell DEF Http!Run
<1> PICK c \in HttpClients : c = Head(backlog)
  BY DEF HttpTypes, Http!Run
<1>1. fd \in Fds /\ open[fd] = {} /\ fd # Http!None /\ cell \in Cells /\ heap[cell] = Http!None
  BY HttpNewFd, HttpNewCell DEF Http!Run
<1>2. /\ c \in HttpClients /\ Tail(backlog) \in Seq(HttpClients) /\ Len(backlog) \in Nat /\ Len(backlog) # 0
      /\ Len(Tail(backlog)) = Len(backlog) - 1 /\ \A i \in 1 .. Len(Tail(backlog)) : Tail(backlog)[i] = backlog[i + 1]
      /\ c = backlog[1]
  BY DEF HttpTypes, Http!Run
<1>3. handler[c].pc = "none" /\ peer[c].pc # "new"
  <2>1. 1 \in 1 .. Len(backlog)
    BY <1>2
  <2> QED
    BY <1>2, <2>1 DEF WaitsOnce
<1>4. /\ open' = [open EXCEPT ![fd] = {c}] /\ heap' = [heap EXCEPT ![cell] = fd]
      /\ handler' = [handler EXCEPT ![c].pc = "start", ![c].cell = cell]
      /\ backlog' = Tail(backlog) /\ alive' = alive /\ peer' = peer
  BY DEF Http!Run
<1>a. handler[c] \in HttpThreads /\ handler \in [HttpClients -> HttpThreads]
  BY <1>2 DEF HttpTypes
<1>5. /\ handler'[c].pc = "start" /\ handler'[c].cell = cell
      /\ \A d \in HttpClients : d # c => handler'[d] = handler[d]
      /\ handler' \in [HttpClients -> HttpThreads]
  BY <1>1, <1>2, <1>4, <1>a DEF HttpThreads
<1>6. HttpTypes'
  <2>1. handler' \in [HttpClients -> HttpThreads]
    BY <1>5
  <2>2. open' \in [Fds \cup {Http!None} -> SUBSET HttpClients] /\ heap' \in [Cells -> Fds \cup {Http!None}]
    BY <1>1, <1>2, <1>4 DEF HttpTypes
  <2> QED
    BY <1>2, <1>4, <2>1, <2>2 DEF HttpTypes
<1>7. WaitsOnce'
  <2>1. \A i \in 1 .. Len(backlog') : i + 1 \in 2 .. Len(backlog) /\ backlog'[i] = backlog[i + 1]
    BY <1>2, <1>4
  <2>2. \A i \in 1 .. Len(backlog') : backlog'[i] # c
    BY <1>2, <2>1 DEF WaitsOnce
  <2>3. \A i \in 1 .. Len(backlog') : backlog'[i] \in HttpClients
    BY <1>2, <1>4
  <2>4. \A i, j \in 1 .. Len(backlog') : backlog'[i] = backlog'[j] => i = j
    <3> SUFFICES ASSUME NEW i \in 1 .. Len(backlog'), NEW j \in 1 .. Len(backlog'), backlog'[i] = backlog'[j]
                 PROVE  i = j
      OBVIOUS
    <3>1. i + 1 \in 1 .. Len(backlog) /\ j + 1 \in 1 .. Len(backlog) /\ backlog[i + 1] = backlog[j + 1]
      BY <1>2, <2>1
    <3>2. i + 1 = j + 1
      BY <3>1 DEF WaitsOnce
    <3> QED
      BY <1>2, <3>2
  <2>5. \A i \in 1 .. Len(backlog') : handler'[backlog'[i]].pc = "none" /\ peer'[backlog'[i]].pc # "new"
    BY <1>2, <1>4, <1>5, <2>1, <2>2, <2>3 DEF WaitsOnce
  <2> QED
    BY <1>3, <1>4, <1>5, <2>4, <2>5 DEF WaitsOnce
<1>8. OwnCell'
  <2>1. heap'[cell] = fd /\ open'[fd] = {c} /\ Runs(c)' /\ ~Runs(c) /\ Desc(c)' = fd
    <3>1. heap'[cell] = fd /\ open'[fd] = {c}
      BY <1>1, <1>4 DEF HttpTypes
    <3> QED
      BY <1>3, <1>5, <3>1 DEF Runs, Desc
  <2>2. \A d \in HttpClients : d # c => (Runs(d)' <=> Runs(d)) /\ handler'[d] = handler[d]
    BY <1>5 DEF Runs
  <2>3. \A d \in HttpClients : d # c /\ Runs(d) => handler[d].cell # cell /\ Desc(d) # fd /\ Desc(d)' = Desc(d)
    <3> SUFFICES ASSUME NEW d \in HttpClients, d # c, Runs(d)
                 PROVE  handler[d].cell # cell /\ Desc(d) # fd /\ Desc(d)' = Desc(d)
      OBVIOUS
    <3>1. handler[d].cell \in Cells /\ heap[handler[d].cell] = Desc(d) /\ Desc(d) \in Fds /\ open[Desc(d)] = {d}
      BY DEF OwnCell
    <3>2. handler[d].cell # cell /\ Desc(d) # fd
      BY <1>1, <3>1, HttpAssumption DEF Http!None
    <3>3. heap'[handler[d].cell] = heap[handler[d].cell]
      BY <1>4, <3>1, <3>2 DEF HttpTypes
    <3> QED
      BY <2>2, <3>2, <3>3 DEF Desc
  <2>4. \A d \in HttpClients :
          Runs(d)' => /\ handler'[d].cell \in Cells /\ heap'[handler'[d].cell] = Desc(d)'
                      /\ Desc(d)' \in Fds /\ open'[Desc(d)'] = {d}
    <3> SUFFICES ASSUME NEW d \in HttpClients, Runs(d)'
                 PROVE  /\ handler'[d].cell \in Cells /\ heap'[handler'[d].cell] = Desc(d)'
                        /\ Desc(d)' \in Fds /\ open'[Desc(d)'] = {d}
      OBVIOUS
    <3>1. CASE d = c
      BY <1>1, <1>5, <2>1, <3>1 DEF Desc
    <3>2. CASE d # c
      <4>1. Runs(d) /\ handler'[d] = handler[d] /\ handler[d].cell # cell /\ Desc(d) # fd /\ Desc(d)' = Desc(d)
        BY <2>2, <2>3, <3>2
      <4>2. heap'[handler[d].cell] = heap[handler[d].cell] /\ open'[Desc(d)] = open[Desc(d)]
        BY <1>4, <4>1 DEF OwnCell, HttpTypes
      <4> QED
        BY <4>1, <4>2 DEF OwnCell
    <3> QED
      BY <3>1, <3>2
  <2>5. \A x \in Cells : heap'[x] # Http!None => \E d \in HttpClients : Runs(d)' /\ handler'[d].cell = x
    <3> SUFFICES ASSUME NEW x \in Cells, heap'[x] # Http!None
                 PROVE  \E d \in HttpClients : Runs(d)' /\ handler'[d].cell = x
      OBVIOUS
    <3>1. CASE x = cell
      BY <1>2, <1>5, <2>1, <3>1 DEF Runs
    <3>2. CASE x # cell
      <4>1. PICK d \in HttpClients : Runs(d) /\ handler[d].cell = x
        BY <1>4, <3>2 DEF OwnCell, HttpTypes
      <4> QED
        BY <2>1, <2>2, <4>1
    <3> QED
      BY <3>1, <3>2
  <2> QED
    BY <2>4, <2>5 DEF OwnCell
<1>9. OwnUrl' /\ Http!OwnAnswer'
  BY <1>3, <1>4, <1>5 DEF OwnUrl, Http!OwnAnswer
<1> QED
  BY <1>6, <1>7, <1>8, <1>9 DEF HttpInv

\* What the places and cells do not see leaves them as they are.
LEMMA WaitStays ==
  ASSUME HttpTypes, WaitsOnce, backlog' = backlog,
         \A d \in HttpClients : /\ handler[d].pc = "none" => handler'[d].pc = "none"
                                /\ peer'[d].pc = "new" => peer[d].pc = "new"
  PROVE  WaitsOnce'
<1>1. \A i \in 1 .. Len(backlog) : backlog[i] \in HttpClients
  BY DEF HttpTypes
<1> QED
  BY <1>1 DEF WaitsOnce

\* So does a cell that a step does not touch.
LEMMA CellStays ==
  ASSUME OwnCell, UNCHANGED <<open, heap>>,
         \A d \in HttpClients : /\ Runs(d)' <=> Runs(d)
                                /\ Runs(d) => handler'[d].cell = handler[d].cell /\ Desc(d)' = Desc(d)
  PROVE  OwnCell'
  BY DEF OwnCell

\* ThreadStart reads its own descriptor from its cell.
LEMMA HttpStart == ASSUME HttpInv, NEW t \in HttpClients, Http!ThreadStart(t) PROVE HttpInv'
<1> HttpTypes /\ WaitsOnce /\ OwnCell /\ OwnUrl /\ Http!OwnAnswer
  BY DEF HttpInv
<1>1. handler[t].pc = "start" /\ Runs(t) /\ heap[handler[t].cell] = Desc(t) /\ Desc(t) \in Fds
  BY DEF Http!ThreadStart, OwnCell, Runs
<1>2. handler[t] \in HttpThreads /\ handler \in [HttpClients -> HttpThreads]
  BY DEF HttpTypes
<1>3. handler' = [handler EXCEPT ![t].pc = "recv", ![t].fd = Desc(t)] /\ UNCHANGED <<alive, backlog, open, heap, peer>>
  BY <1>1 DEF Http!ThreadStart
<1>4. /\ handler'[t].pc = "recv" /\ handler'[t].fd = Desc(t) /\ handler'[t].cell = handler[t].cell
      /\ \A d \in HttpClients : d # t => handler'[d] = handler[d]
      /\ handler' \in [HttpClients -> HttpThreads]
  BY <1>1, <1>2, <1>3 DEF HttpThreads
<1>5. HttpTypes'
  BY <1>3, <1>4 DEF HttpTypes
<1>6. WaitsOnce'
  BY <1>1, <1>3, <1>4, WaitStays
<1>7. OwnCell'
  <2>1. \A d \in HttpClients : /\ Runs(d)' <=> Runs(d)
                               /\ handler'[d].cell = handler[d].cell /\ Desc(d)' = Desc(d)
    BY <1>1, <1>3, <1>4 DEF Runs, Desc
  <2> QED
    BY <1>3, <2>1, CellStays
<1>8. OwnUrl' /\ Http!OwnAnswer'
  BY <1>3, <1>4 DEF OwnUrl, Http!OwnAnswer
<1> QED
  BY <1>5, <1>6, <1>7, <1>8 DEF HttpInv

\* What a thread receives was sent by its own client: the url is that of its request.
LEMMA HttpRecv == ASSUME HttpInv, NEW t \in HttpClients, Http!Recv(t) PROVE HttpInv'
<1> HttpTypes /\ WaitsOnce /\ OwnCell /\ OwnUrl /\ Http!OwnAnswer
  BY DEF HttpInv
<1>1. handler[t].pc = "recv" /\ Runs(t) /\ open[handler[t].fd] = {t}
  BY DEF Http!Recv, OwnCell, Runs, Desc
<1>2. handler[t] \in HttpThreads /\ handler \in [HttpClients -> HttpThreads]
      /\ peer[t] \in HttpPeers /\ peer \in [HttpClients -> HttpPeers]
  BY DEF HttpTypes
<1>3. PICK stale \in Stale :
        /\ peer[t].data # Http!Nothing
        /\ handler' = [handler EXCEPT ![t].pc = "send", ![t].url = Http!Parse(Http!Joined(peer[t].data, stale))]
        /\ peer' = [peer EXCEPT ![t].data = Http!Nothing]
  BY <1>1 DEF Http!Recv
<1> DEFINE url == Http!Parse(Http!Joined(peer[t].data, stale))
<1>a. UNCHANGED <<alive, backlog, open, heap>>
  BY DEF Http!Recv
<1>b. peer[t].data = peer[t].asked /\ peer[t].asked # Http!Nothing /\ peer[t].asked \in Seq(STRING)
  BY <1>2, <1>3 DEF OwnUrl, HttpPeers
<1>c. Len(peer[t].asked) > 1 => url = Http!Parse(peer[t].asked)
  BY <1>b, StaleIsHarmless, HttpAssumption
<1>d. url \in Urls
  BY ParseIsUrl
<1>3a. handler' = [handler EXCEPT ![t].pc = "send", ![t].url = url]
  BY <1>3
<1> HIDE DEF url
<1>4. /\ handler'[t].pc = "send" /\ handler'[t].url = url /\ handler'[t].cell = handler[t].cell
      /\ handler'[t].fd = handler[t].fd
      /\ \A d \in HttpClients : d # t => handler'[d] = handler[d]
      /\ handler' \in [HttpClients -> HttpThreads]
  BY <1>2, <1>3a, <1>d DEF HttpThreads
<1>5. /\ peer'[t].data = Http!Nothing /\ peer'[t].asked = peer[t].asked /\ peer'[t].answer = peer[t].answer
      /\ peer'[t].pc = peer[t].pc
      /\ \A d \in HttpClients : d # t => peer'[d] = peer[d]
      /\ peer' \in [HttpClients -> HttpPeers]
  <2>1. Http!Nothing \in Seq(STRING)
    BY DEF Http!Nothing
  <2> QED
    BY <1>2, <1>3, <2>1 DEF HttpPeers
<1>6. HttpTypes'
  BY <1>a, <1>4, <1>5 DEF HttpTypes
<1>7. WaitsOnce'
  BY <1>1, <1>a, <1>4, <1>5, WaitStays
<1>8. OwnCell'
  <2>1. \A d \in HttpClients : /\ Runs(d)' <=> Runs(d)
                               /\ handler'[d].cell = handler[d].cell /\ Desc(d)' = Desc(d)
    BY <1>1, <1>a, <1>4 DEF Runs, Desc
  <2> QED
    BY <1>a, <2>1, CellStays
<1>9. OwnUrl' /\ Http!OwnAnswer'
  BY <1>b, <1>c, <1>4, <1>5 DEF OwnUrl, Http!OwnAnswer
<1> QED
  BY <1>6, <1>7, <1>8, <1>9 DEF HttpInv

\* recv that fails, and a send: the thread goes on to its end, or the process dies.
LEMMA HttpRecvNothing == ASSUME HttpInv, NEW t \in HttpClients, Http!RecvNothing(t) PROVE HttpInv'
<1> HttpTypes /\ WaitsOnce /\ OwnCell /\ OwnUrl /\ Http!OwnAnswer
  BY DEF HttpInv
<1>1. handler[t].pc = "recv" /\ handler' = [handler EXCEPT ![t].pc = "close"]
      /\ UNCHANGED <<alive, backlog, open, heap, peer>>
  BY DEF Http!RecvNothing
<1>2. handler[t] \in HttpThreads /\ handler \in [HttpClients -> HttpThreads]
  BY DEF HttpTypes
<1>3. /\ handler'[t].pc = "close" /\ handler'[t].cell = handler[t].cell /\ handler'[t].fd = handler[t].fd
      /\ \A d \in HttpClients : d # t => handler'[d] = handler[d]
      /\ handler' \in [HttpClients -> HttpThreads]
  BY <1>1, <1>2 DEF HttpThreads
<1>4. HttpTypes'
  BY <1>1, <1>3 DEF HttpTypes
<1>5. WaitsOnce'
  BY <1>1, <1>3, WaitStays
<1>6. OwnCell'
  <2>1. \A d \in HttpClients : /\ Runs(d)' <=> Runs(d)
                               /\ handler'[d].cell = handler[d].cell /\ Desc(d)' = Desc(d)
    BY <1>1, <1>3 DEF Runs, Desc
  <2> QED
    BY <1>1, <2>1, CellStays
<1>7. OwnUrl' /\ Http!OwnAnswer'
  BY <1>1, <1>3 DEF OwnUrl, Http!OwnAnswer
<1> QED
  BY <1>4, <1>5, <1>6, <1>7 DEF HttpInv

\* The answer is sent to the connection that is behind the descriptor now: its own.
LEMMA HttpSend == ASSUME HttpInv, NEW t \in HttpClients, Http!Send(t) PROVE HttpInv'
<1> HttpTypes /\ WaitsOnce /\ OwnCell /\ OwnUrl /\ Http!OwnAnswer
  BY DEF HttpInv
<1>1. handler[t].pc = "send" /\ Runs(t) /\ open[handler[t].fd] = {t} /\ UNCHANGED <<backlog, open, heap>>
  BY DEF Http!Send, OwnCell, Runs, Desc
<1>2. handler[t] \in HttpThreads /\ handler \in [HttpClients -> HttpThreads]
      /\ peer[t] \in HttpPeers /\ peer \in [HttpClients -> HttpPeers]
  BY DEF HttpTypes
<1>3. CASE alive' = FALSE /\ UNCHANGED <<handler, peer>>
  <2>1. HttpTypes'
    BY <1>1, <1>3 DEF HttpTypes
  <2>2. WaitsOnce'
    BY <1>1, <1>3, WaitStays
  <2>3. OwnCell'
    BY <1>1, <1>3 DEF OwnCell, Runs, Desc
  <2>4. OwnUrl' /\ Http!OwnAnswer'
    BY <1>3 DEF OwnUrl, Http!OwnAnswer
  <2> QED
    BY <2>1, <2>2, <2>3, <2>4 DEF HttpInv
<1>4. CASE /\ UNCHANGED alive
           /\ handler' = [handler EXCEPT ![t].pc = "close"]
           /\ peer' = [c \in HttpClients |->
                IF c \in open[handler[t].fd] /\ peer[c].pc = "open"
                THEN [peer[c] EXCEPT !.answer = Http!Response(handler[t].url)] ELSE peer[c]]
  <2>1. /\ handler'[t].pc = "close" /\ handler'[t].cell = handler[t].cell /\ handler'[t].fd = handler[t].fd
        /\ \A d \in HttpClients : d # t => handler'[d] = handler[d]
        /\ handler' \in [HttpClients -> HttpThreads]
    BY <1>2, <1>4 DEF HttpThreads
  <2>2. Http!Response(handler[t].url) \in {Http!Response(u) : u \in Urls}
    BY <1>2 DEF HttpThreads
  <2>3. /\ \A d \in HttpClients : d # t => peer'[d] = peer[d]
        /\ peer'[t] \in {peer[t], [peer[t] EXCEPT !.answer = Http!Response(handler[t].url)]}
    BY <1>1, <1>4
  <2>4. /\ peer'[t].data = peer[t].data /\ peer'[t].asked = peer[t].asked /\ peer'[t].pc = peer[t].pc
        /\ peer'[t].answer \in {peer[t].answer, Http!Response(handler[t].url)}
        /\ peer'[t] \in HttpPeers
    BY <1>2, <2>2, <2>3 DEF HttpPeers
  <2>5. peer' \in [HttpClients -> HttpPeers]
    <3>1. peer' = [d \in HttpClients |-> peer'[d]]
      BY <1>4
    <3> QED
      BY <1>2, <2>3, <2>4, <3>1
  <2>6. HttpTypes'
    BY <1>1, <1>4, <2>1, <2>5 DEF HttpTypes
  <2>7. WaitsOnce'
    BY <1>1, <2>1, <2>3, <2>4, WaitStays
  <2>8. OwnCell'
    <3>1. \A d \in HttpClients : /\ Runs(d)' <=> Runs(d)
                                 /\ handler'[d].cell = handler[d].cell /\ Desc(d)' = Desc(d)
      BY <1>1, <2>1 DEF Runs, Desc
    <3> QED
      BY <1>1, <3>1, CellStays
  <2>9. OwnUrl' /\ Http!OwnAnswer'
    BY <1>1, <2>1, <2>3, <2>4 DEF OwnUrl, Http!OwnAnswer
  <2> QED
    BY <2>6, <2>7, <2>8, <2>9 DEF HttpInv
<1> QED
  BY <1>3, <1>4 DEF Http!Send

\* close and delete free the thread's own descriptor and cell.
LEMMA HttpEnd == ASSUME HttpInv, NEW t \in HttpClients, Http!ThreadEnd(t) PROVE HttpInv'
<1> HttpTypes /\ WaitsOnce /\ OwnCell /\ OwnUrl /\ Http!OwnAnswer
  BY DEF HttpInv
<1>1. handler[t].pc = "close" /\ Runs(t) /\ Desc(t) = handler[t].fd /\ UNCHANGED <<alive, backlog, peer>>
  BY DEF Http!ThreadEnd, OwnCell, Runs, Desc
<1>2. handler \in [HttpClients -> HttpThreads]
      /\ open \in [Fds \cup {Http!None} -> SUBSET HttpClients] /\ heap \in [Cells -> Fds \cup {Http!None}]
  BY DEF HttpTypes
<1>3. /\ open' = [open EXCEPT ![Desc(t)] = {}] /\ heap' = [heap EXCEPT ![handler[t].cell] = Http!None]
      /\ handler' = [handler EXCEPT ![t] = [pc |-> "done", cell |-> Http!None, fd |-> Http!None, url |-> ""]]
  BY <1>1 DEF Http!ThreadEnd
<1>4. [pc |-> "done", cell |-> Http!None, fd |-> Http!None, url |-> ""] \in HttpThreads
  BY DEF HttpThreads, Urls
<1>5. /\ handler'[t].pc = "done" /\ \A d \in HttpClients : d # t => handler'[d] = handler[d]
      /\ handler' \in [HttpClients -> HttpThreads]
  BY <1>2, <1>3, <1>4
<1>6. HttpTypes'
  <2>1. open' \in [Fds \cup {Http!None} -> SUBSET HttpClients] /\ heap' \in [Cells -> Fds \cup {Http!None}]
    BY <1>2, <1>3
  <2> QED
    BY <1>1, <1>5, <2>1 DEF HttpTypes
<1>7. WaitsOnce'
  BY <1>1, <1>5, WaitStays
<1>8. OwnCell'
  <2>1. \A d \in HttpClients : d # t => (Runs(d)' <=> Runs(d)) /\ handler'[d] = handler[d]
    BY <1>5 DEF Runs
  <2>2. ~Runs(t)'
    BY <1>5 DEF Runs
  <2>3. \A d \in HttpClients : d # t /\ Runs(d) => Desc(d) # Desc(t) /\ handler[d].cell # handler[t].cell
    BY <1>1, Apart
  <2>4. \A d \in HttpClients : d # t /\ Runs(d) =>
          /\ heap'[handler[d].cell] = heap[handler[d].cell] /\ open'[Desc(d)] = open[Desc(d)] /\ Desc(d)' = Desc(d)
    <3> SUFFICES ASSUME NEW d \in HttpClients, d # t, Runs(d)
                 PROVE  /\ heap'[handler[d].cell] = heap[handler[d].cell] /\ open'[Desc(d)] = open[Desc(d)]
                        /\ Desc(d)' = Desc(d)
      OBVIOUS
    <3>1. handler[d].cell \in Cells /\ Desc(d) \in Fds
      BY DEF OwnCell
    <3>2. heap'[handler[d].cell] = heap[handler[d].cell] /\ open'[Desc(d)] = open[Desc(d)]
      BY <1>2, <1>3, <2>3, <3>1
    <3> QED
      BY <2>1, <3>2 DEF Desc
  <2>5. \A d \in HttpClients : Runs(d)' => /\ handler'[d].cell \in Cells /\ heap'[handler'[d].cell] = Desc(d)'
                                           /\ Desc(d)' \in Fds /\ open'[Desc(d)'] = {d}
    BY <2>1, <2>2, <2>4 DEF OwnCell
  <2>6. \A x \in Cells : heap'[x] # Http!None => \E d \in HttpClients : Runs(d)' /\ handler'[d].cell = x
    <3> SUFFICES ASSUME NEW x \in Cells, heap'[x] # Http!None
                 PROVE  \E d \in HttpClients : Runs(d)' /\ handler'[d].cell = x
      OBVIOUS
    <3>1. x # handler[t].cell /\ heap[x] # Http!None
      BY <1>2, <1>3
    <3>2. PICK d \in HttpClients : Runs(d) /\ handler[d].cell = x
      BY <3>1 DEF OwnCell
    <3> QED
      BY <2>1, <3>1, <3>2
  <2> QED
    BY <2>5, <2>6 DEF OwnCell
<1>9. OwnUrl' /\ Http!OwnAnswer'
  BY <1>1, <1>5 DEF OwnUrl, Http!OwnAnswer
<1> QED
  BY <1>6, <1>7, <1>8, <1>9 DEF HttpInv

\* A client's step changes its own record only.
LEMMA HttpPeer ==
  ASSUME HttpInv, NEW c \in HttpClients, Http!Connect(c) \/ Http!Ask(c) \/ Http!Leave(c)
  PROVE  HttpInv'
<1> HttpTypes /\ WaitsOnce /\ OwnCell /\ OwnUrl /\ Http!OwnAnswer
  BY DEF HttpInv
<1>1. UNCHANGED <<alive, open, heap, handler>>
  BY DEF Http!Connect, Http!Ask, Http!Leave
<1>2. peer[c] \in HttpPeers /\ peer \in [HttpClients -> HttpPeers]
  BY DEF HttpTypes
<1>3. OwnCell'
  <2>1. \A d \in HttpClients : /\ Runs(d)' <=> Runs(d)
                               /\ handler'[d].cell = handler[d].cell /\ Desc(d)' = Desc(d)
    BY <1>1 DEF Runs, Desc
  <2> QED
    BY <1>1, <2>1, CellStays
<1>4. CASE Http!Connect(c)
  <2>1. peer[c].pc = "new" /\ peer' = [peer EXCEPT ![c].pc = "open"] /\ backlog' = Append(backlog, c)
    BY <1>4 DEF Http!Connect
  <2>2. /\ peer'[c].data = peer[c].data /\ peer'[c].asked = peer[c].asked /\ peer'[c].answer = peer[c].answer
        /\ peer'[c].pc = "open" /\ \A d \in HttpClients : d # c => peer'[d] = peer[d]
        /\ peer' \in [HttpClients -> HttpPeers]
    BY <1>2, <2>1 DEF HttpPeers
  <2>3. /\ backlog' \in Seq(HttpClients) /\ Len(backlog) \in Nat /\ Len(backlog') = Len(backlog) + 1
        /\ \A i \in 1 .. Len(backlog) : backlog'[i] = backlog[i] /\ backlog[i] \in HttpClients
        /\ backlog'[Len(backlog) + 1] = c
    BY <2>1 DEF HttpTypes
  <2>4. HttpTypes'
    BY <1>1, <2>2, <2>3 DEF HttpTypes
  <2>5. \A i \in 1 .. Len(backlog') : i \in 1 .. Len(backlog) \/ i = Len(backlog) + 1
    BY <2>3
  <2>6. handler[c].pc = "none" /\ \A i \in 1 .. Len(backlog) : backlog[i] # c
    BY <2>1 DEF WaitsOnce
  <2>7. WaitsOnce'
    BY <1>1, <2>2, <2>3, <2>5, <2>6 DEF WaitsOnce
  <2>8. OwnUrl' /\ Http!OwnAnswer'
    BY <1>1, <2>2 DEF OwnUrl, Http!OwnAnswer
  <2> QED
    BY <1>3, <2>4, <2>7, <2>8 DEF HttpInv
<1>5. CASE Http!Ask(c)
  <2>1. PICK r \in Requests[c] : peer' = [peer EXCEPT ![c].asked = r, ![c].data = r]
    BY <1>5 DEF Http!Ask
  <2>2. r \in Seq(STRING) /\ r # <<>>
    BY HttpAssumption DEF HttpClients
  <2>3. peer[c].asked = Http!Nothing /\ peer[c].pc = "open" /\ backlog' = backlog
    BY <1>5 DEF Http!Ask
  <2>4. peer[c].answer = Http!Nothing /\ handler[c].pc # "send"
    BY <2>3 DEF OwnUrl
  <2>5. /\ peer'[c].data = r /\ peer'[c].asked = r /\ peer'[c].answer = peer[c].answer /\ peer'[c].pc = peer[c].pc
        /\ \A d \in HttpClients : d # c => peer'[d] = peer[d]
        /\ peer' \in [HttpClients -> HttpPeers]
    BY <1>2, <2>1, <2>2 DEF HttpPeers
  <2>6. HttpTypes'
    BY <1>1, <2>3, <2>5 DEF HttpTypes
  <2>7. WaitsOnce'
    BY <1>1, <2>3, <2>5, WaitStays
  <2>8. OwnUrl' /\ Http!OwnAnswer'
    BY <1>1, <2>2, <2>4, <2>5 DEF OwnUrl, Http!OwnAnswer, Http!Nothing
  <2> QED
    BY <1>3, <2>6, <2>7, <2>8 DEF HttpInv
<1>6. CASE Http!Leave(c)
  <2>1. peer[c].pc \in {"open", "closed"} /\ backlog' = backlog
    BY <1>6 DEF Http!Leave
  <2> PICK pc \in {"closed", "aborted"} : peer' = [peer EXCEPT ![c].pc = pc]
    BY <1>6 DEF Http!Leave
  <2>2. /\ peer'[c].data = peer[c].data /\ peer'[c].asked = peer[c].asked /\ peer'[c].answer = peer[c].answer
        /\ peer'[c].pc # "new" /\ \A d \in HttpClients : d # c => peer'[d] = peer[d]
        /\ peer' \in [HttpClients -> HttpPeers]
    BY <1>2, <2>1 DEF HttpPeers
  <2>3. HttpTypes'
    BY <1>1, <2>1, <2>2 DEF HttpTypes
  <2>4. WaitsOnce'
    BY <1>1, <2>1, <2>2, WaitStays
  <2>5. OwnUrl' /\ Http!OwnAnswer'
    BY <1>1, <2>2 DEF OwnUrl, Http!OwnAnswer
  <2> QED
    BY <1>3, <2>3, <2>4, <2>5 DEF HttpInv
<1> QED
  BY <1>4, <1>5, <1>6

\* The invariant is inductive.
LEMMA HttpStep == HttpInv /\ [Http!Next]_httpVars => HttpInv'
<1> SUFFICES ASSUME HttpInv, [Http!Next]_httpVars PROVE HttpInv'
  OBVIOUS
<1>1. CASE Http!Run
  BY <1>1, HttpRun
<1>2. ASSUME NEW c \in HttpClients, Http!Thread(c) PROVE HttpInv'
  BY <1>2, HttpStart, HttpRecv, HttpRecvNothing, HttpSend, HttpEnd DEF Http!Thread
<1>3. ASSUME NEW c \in HttpClients, Http!Connect(c) \/ Http!Ask(c) \/ Http!Leave(c) PROVE HttpInv'
  BY <1>3, HttpPeer
<1>4. CASE UNCHANGED httpVars
  BY <1>4 DEF httpVars, HttpInv, HttpTypes, WaitsOnce, OwnCell, Runs, Desc, OwnUrl, Http!OwnAnswer
<1> QED
  BY <1>1, <1>2, <1>3, <1>4 DEF Http!Next

\* The types are those the module states.
LEMMA HttpTypeOK == HttpInv => Http!TypeOK
  BY DEF HttpInv, HttpTypes, HttpThreads, HttpPeers, OwnUrl, Http!TypeOK

-----------------------------------------------------------------------------
(***************************************************************************)
(* The calculator.                                                         *)
(***************************************************************************)
Questions == [x : Nat, y : Nat, op : STRING]
Answers == [result : Int, code : Nat]
Wire == [len : Nat, val : {<<>>} \cup Questions \cup Answers]

\* The stream of the first n packets of p.
Stream(p) == LET f[n \in 0 .. Len(p)] == IF n = 0 THEN <<>> ELSE f[n - 1] \o p[n] IN f

\* Of the packets of p, those after the n-th up to the m-th are in a buffer and, behind
\* what the buffer holds, on the way to it.
Flows(p, n, m, in, up) == Stream(p)[n] \o (in \o up) = Stream(p)[m]

\* A header that says how much follows, and something that follows.
Framed(p) == \A i \in 1 .. Len(p) : Len(p[i]) >= 2 /\ p[i][1].len + 1 = Len(p[i])

\* The packets of c's questions and of their answers.
Ups(c) == [i \in 1 .. Len(Asks[c]) |-> Calc!Encode(Calc!SerializeRequest(Asks[c][i]))]
Downs(c) == [i \in 1 .. Len(Asks[c]) |-> Calc!Encode(Calc!SerializeResponse(Calc!CalculatorHelper(Asks[c][i])))]

CalcChildren == [pc : {"none", "refused", "read", "decode", "exited"}, in : Seq(Wire), served : Seq(Answers)]
CalcLinks == [up : Seq(Wire), down : Seq(Wire), fin : BOOLEAN]
CalcAskers == [pc : {"connect", "send", "read", "done", "aborted"}, asked : Nat, got : Seq(Answers), in : Seq(Wire)]

CalcTypes ==
  /\ parent \in [pc : {"init", "accept", "fork", "close", "exited"}, conn : SUBSET CalcClients]
  /\ pending \in Seq(CalcClients) /\ child \in [CalcClients -> CalcChildren]
  /\ holders \in [CalcClients -> SUBSET (CalcClients \cup {"parent"})]
  /\ link \in [CalcClients -> CalcLinks] /\ asker \in [CalcClients -> CalcAskers]

\* What is got has been served, and what is served has been asked; it is the answer.
Progress(c) ==
  /\ Len(asker[c].got) <= Len(child[c].served)
  /\ Len(child[c].served) <= asker[c].asked /\ asker[c].asked <= Len(Asks[c])
  /\ \A i \in 1 .. Len(child[c].served) : child[c].served[i] = Calc!CalculatorHelper(Asks[c][i])
  /\ \A i \in 1 .. Len(asker[c].got) : asker[c].got[i] = Calc!CalculatorHelper(Asks[c][i])

\* In the child's buffer and on the way to it are the questions it has not answered,
\* cut anywhere.
UpStream(c) ==
  Flows(Ups(c), Len(child[c].served), asker[c].asked, child[c].in, link[c].up)

\* And so with the answers, while the client takes them.
DownStream(c) ==
  asker[c].pc \in {"connect", "send", "read"} =>
    Flows(Downs(c), Len(asker[c].got), Len(child[c].served), asker[c].in, link[c].down)

\* A client that does not burst has one question open at most.
Turns(c) ==
  /\ asker[c].pc = "connect" => asker[c].asked = 0
  /\ c \in Bursts => asker[c].in = <<>>
  /\ c \notin Bursts => /\ asker[c].pc = "send" => Len(asker[c].got) = asker[c].asked
                        /\ asker[c].pc = "read" => asker[c].asked = Len(asker[c].got) + 1

\* A child reads again only when its buffer holds no whole packet.
ReadsOn(c) ==
  /\ child[c].pc \in {"none", "refused", "read"} => Calc!Decode(child[c].in) = Calc!Nothing
  /\ child[c].pc \in {"none", "refused"} => child[c].served = <<>>

\* A child is forked once for a client.
ForkedOnce ==
  /\ \A i, j \in 1 .. Len(pending) : pending[i] = pending[j] => i = j
  /\ \A i \in 1 .. Len(pending) : /\ asker[pending[i]].pc # "connect" /\ child[pending[i]].pc = "none"
                                  /\ pending[i] \notin parent.conn
  /\ \A c \in parent.conn : asker[c].pc # "connect" /\ (parent.pc = "fork" => child[c].pc = "none")
  /\ \A c \in CalcClients : asker[c].pc = "connect" => child[c].pc = "none"

CalcRest == \A c \in CalcClients : Progress(c) /\ UpStream(c) /\ DownStream(c) /\ Turns(c) /\ ReadsOn(c)
CalcInv == CalcTypes /\ ForkedOnce /\ CalcRest

-----------------------------------------------------------------------------
(***************************************************************************)
(* Streams of packets.                                                     *)
(***************************************************************************)
Streams(g, p, n) == g = [m \in 0 .. n |-> IF m = 0 THEN <<>> ELSE g[m - 1] \o p[m]]

\* The recursion that builds the stream of L packets comes to an end.
LEMMA StreamEnds == ASSUME NEW p, NEW L \in Nat PROVE \E g : Streams(g, p, L)
<1> DEFINE Bad == {n \in Nat : ~ \E g : Streams(g, p, n)}
<1>1. SUFFICES ASSUME Bad # {} PROVE FALSE
  OBVIOUS
<1>2. PICK n \in Bad : \A m \in Bad : n <= m
  <2>1. Bad \in SUBSET Nat
    OBVIOUS
  <2> QED
    BY <1>1, <2>1, Smallest
<1>3. n \in Nat /\ ~ \E g : Streams(g, p, n)
  BY <1>2
<1>4. n # 0
  <2>1. Streams([m \in 0 .. 0 |-> <<>>], p, 0)
    BY DEF Streams
  <2> QED
    BY <1>3, <2>1
<1>5. n - 1 \in Nat /\ n - 1 \notin Bad
  BY <1>2, <1>3, <1>4
<1>6. PICK g : Streams(g, p, n - 1)
  BY <1>5
<1> DEFINE h == [m \in 0 .. n |-> IF m = n THEN g[n - 1] \o p[n] ELSE g[m]]
<1>7. Streams(h, p, n)
  <2>1. \A m \in 0 .. n - 1 : g[m] = IF m = 0 THEN <<>> ELSE g[m - 1] \o p[m]
    BY <1>6 DEF Streams
  <2>2. \A m \in 0 .. n : h[m] = IF m = 0 THEN <<>> ELSE h[m - 1] \o p[m]
    <3> SUFFICES ASSUME NEW m \in 0 .. n PROVE h[m] = IF m = 0 THEN <<>> ELSE h[m - 1] \o p[m]
      OBVIOUS
    <3>1. CASE m = 0
      <4>1. 0 \in 0 .. n /\ 0 # n /\ 0 \in 0 .. n - 1
        BY <1>3, <1>4
      <4> QED
        BY <2>1, <3>1, <4>1
    <3>2. CASE m # 0
      <4>1. m - 1 \in 0 .. n /\ m - 1 # n /\ m - 1 \in 0 .. n - 1 /\ (m # n => m \in 0 .. n - 1)
        BY <1>3, <3>2
      <4>2. h[m - 1] = g[m - 1]
        BY <4>1
      <4>3. h[m] = g[m - 1] \o p[m]
        BY <2>1, <3>2, <4>1
      <4> QED
        BY <3>2, <4>2, <4>3
    <3> QED
      BY <3>1, <3>2
  <2>3. h = [m \in 0 .. n |-> h[m]]
    OBVIOUS
  <2> QED
    BY <2>2, <2>3 DEF Streams
<1> QED
  BY <1>3, <1>7

\* A stream grows packet by packet.
LEMMA StreamGrows ==
  ASSUME NEW p, Len(p) \in Nat
  PROVE  Stream(p)[0] = <<>> /\ \A n \in 1 .. Len(p) : Stream(p)[n] = Stream(p)[n - 1] \o p[n]
<1>1. PICK g : Streams(g, p, Len(p))
  BY StreamEnds
<1>2. Streams(Stream(p), p, Len(p))
  BY <1>1 DEF Streams, Stream
<1>3. 0 \in 0 .. Len(p) /\ \A n \in 1 .. Len(p) : n \in 0 .. Len(p) /\ n # 0
  OBVIOUS
<1> QED
  BY <1>2, <1>3 DEF Streams

\* Packets of symbols make a stream of symbols.
LEMMA StreamTyped ==
  ASSUME NEW S, NEW p \in Seq(Seq(S)), NEW n \in 0 .. Len(p)
  PROVE  Stream(p)[n] \in Seq(S)
<1> DEFINE Bad == {m \in 0 .. Len(p) : Stream(p)[m] \notin Seq(S)}
<1> Len(p) \in Nat
  OBVIOUS
<1>0. Stream(p)[0] = <<>> /\ \A l \in 1 .. Len(p) : Stream(p)[l] = Stream(p)[l - 1] \o p[l]
  BY StreamGrows
<1>1. SUFFICES ASSUME Bad # {} PROVE FALSE
  OBVIOUS
<1>2. Bad \in SUBSET Nat
  OBVIOUS
<1>3. PICK m \in Bad : \A k \in Bad : m <= k
  BY <1>1, <1>2, Smallest
<1>4. Stream(p)[0] \in Seq(S)
  BY <1>0
<1>5. m \in 1 .. Len(p) /\ m - 1 \in 0 .. Len(p) /\ m - 1 \notin Bad
  BY <1>3, <1>4
<1>6. Stream(p)[m - 1] \in Seq(S) /\ p[m] \in Seq(S)
  BY <1>5
<1>7. Stream(p)[m] = Stream(p)[m - 1] \o p[m]
  BY <1>0, <1>5
<1>8. Stream(p)[m] \in Seq(S)
  BY <1>6, <1>7, ConcatProperties
<1> QED
  BY <1>3, <1>8

\* What is of the first n packets is the beginning of more of them.
LEMMA StreamPrefix ==
  ASSUME NEW S, NEW p \in Seq(Seq(S)), NEW n \in 0 .. Len(p), NEW m \in n .. Len(p)
  PROVE  \E t \in Seq(S) : Stream(p)[m] = Stream(p)[n] \o t
<1> DEFINE Bad == {k \in n .. Len(p) : ~ \E t \in Seq(S) : Stream(p)[k] = Stream(p)[n] \o t}
<1> Len(p) \in Nat
  OBVIOUS
<1>0. Stream(p)[0] = <<>> /\ \A l \in 1 .. Len(p) : Stream(p)[l] = Stream(p)[l - 1] \o p[l]
  BY StreamGrows
<1>1. SUFFICES ASSUME Bad # {} PROVE FALSE
  OBVIOUS
<1>2. Bad \in SUBSET Nat
  OBVIOUS
<1>3. PICK k \in Bad : \A l \in Bad : k <= l
  BY <1>1, <1>2, Smallest
<1>4. k \in n .. Len(p) /\ ~ \E t \in Seq(S) : Stream(p)[k] = Stream(p)[n] \o t
  BY <1>3
<1>5. Stream(p)[n] \in Seq(S)
  BY StreamTyped
<1>6. k # n
  <2>1. Stream(p)[n] = Stream(p)[n] \o <<>> /\ <<>> \in Seq(S)
    BY <1>5, ConcatEmptySeq
  <2> QED
    BY <1>4, <2>1
<1>7. k - 1 \in n .. Len(p) /\ k - 1 \notin Bad /\ k \in 1 .. Len(p)
  <2>1. n \in Nat /\ k \in Int /\ n <= k /\ k <= Len(p) /\ k # n
    BY <1>4, <1>6
  <2>2. k - 1 \in n .. Len(p) /\ k \in 1 .. Len(p)
    BY <2>1
  <2>3. k - 1 \notin Bad
    <3> HIDE DEF Bad
    <3> QED
      BY <1>3, <2>1
  <2> QED
    BY <2>2, <2>3
<1>8. PICK t \in Seq(S) : Stream(p)[k - 1] = Stream(p)[n] \o t
  BY <1>7
<1>e. PICK e \in Seq(S) : e = p[k]
  BY <1>7
<1>9. Stream(p)[k] = Stream(p)[k - 1] \o e
  BY <1>0, <1>7, <1>e
<1>10. Stream(p)[k] = Stream(p)[n] \o (t \o e) /\ t \o e \in Seq(S)
  <2>a. PICK a \in Seq(S) : a = Stream(p)[n]
    BY <1>5
  <2>1. (a \o t) \o e = a \o (t \o e)
    BY ConcatAssociative
  <2>2. t \o e \in Seq(S)
    BY ConcatProperties
  <2> QED
    BY <1>8, <1>9, <2>a, <2>1, <2>2
<1> QED
  BY <1>4, <1>10

\* Brackets do not matter.
Cat(s, t) == s \o t

\* Concatenation is associative, as the proofs below need it.
LEMMA Regroup ==
  ASSUME NEW S, NEW s \in Seq(S), NEW a \in Seq(S), NEW b \in Seq(S), NEW e \in Seq(S)
  PROVE  /\ Cat(Cat(s, Cat(a, b)), e) = Cat(s, Cat(a, Cat(b, e)))
         /\ Cat(Cat(s, a), Cat(b, e)) = Cat(s, Cat(Cat(a, b), e))
<1>1. a \o b \in Seq(S) /\ b \o e \in Seq(S)
  BY ConcatProperties
<1>2. (s \o (a \o b)) \o e = s \o ((a \o b) \o e)
  BY <1>1, ConcatAssociative
<1>3. (a \o b) \o e = a \o (b \o e)
  BY ConcatAssociative
<1>4. (s \o a) \o (b \o e) = s \o (a \o (b \o e))
  BY <1>1, ConcatAssociative
<1> QED
  BY <1>2, <1>3, <1>4 DEF Cat

\* r starts with the sequence e.
Starts(S, r, e) == \E t \in Seq(S) : r = e \o t

\* A stream that goes on after n packets goes on with the next one.
LEMMA NextPacket ==
  ASSUME NEW S, NEW p \in Seq(Seq(S)), NEW n \in 0 .. Len(p), NEW m \in n .. Len(p), NEW r \in Seq(S),
         Stream(p)[n] \o r = Stream(p)[m]
  PROVE  /\ n = m => r = <<>>
         /\ n # m => n + 1 \in 1 .. Len(p) /\ Starts(S, r, p[n + 1])
<1> Len(p) \in Nat
  OBVIOUS
<1>0. Stream(p)[0] = <<>> /\ \A l \in 1 .. Len(p) : Stream(p)[l] = Stream(p)[l - 1] \o p[l]
  BY StreamGrows
<1>1. Stream(p)[n] \in Seq(S)
  BY StreamTyped
<1>2. CASE n = m
  <2>1. Stream(p)[n] \o r = Stream(p)[n]
    BY <1>2
  <2>2. r = <<>>
    BY <1>1, <2>1, ConcatEqualIffEmpty
  <2> QED
    BY <1>2, <2>2
<1>3. CASE n # m
  <2>1. n + 1 \in 1 .. Len(p) /\ n + 1 \in 0 .. Len(p) /\ m \in n + 1 .. Len(p) /\ n + 1 - 1 = n
    BY <1>3
  <2>e. PICK e \in Seq(S) : e = p[n + 1]
    BY <2>1
  <2>2. Stream(p)[n + 1] = Stream(p)[n] \o e
    <3> PICK l \in 1 .. Len(p) : l = n + 1 /\ l - 1 = n
      BY <2>1
    <3>1. Stream(p)[l] = Stream(p)[l - 1] \o p[l]
      BY <1>0
    <3> QED
      BY <2>e, <3>1
  <2>3. PICK t \in Seq(S) : Stream(p)[m] = Stream(p)[n + 1] \o t
    BY <2>1, StreamPrefix
  <2>4. Stream(p)[n] \o r = Stream(p)[n] \o (e \o t) /\ e \o t \in Seq(S)
    <3>a. PICK a \in Seq(S) : a = Stream(p)[n]
      BY <1>1
    <3>1. (a \o e) \o t = a \o (e \o t)
      BY ConcatAssociative
    <3>2. e \o t \in Seq(S)
      BY ConcatProperties
    <3> QED
      BY <2>2, <2>3, <3>a, <3>1, <3>2
  <2>5. r = e \o t
    BY <1>1, <2>4, ConcatSimplifications
  <2> QED
    BY <1>3, <2>1, <2>e, <2>5 DEF Starts
<1> QED
  BY <1>2, <1>3

\* One packet more at the end.
LEMMA StreamAppend ==
  ASSUME NEW S, NEW p \in Seq(Seq(S)), NEW n \in 0 .. Len(p), NEW m \in 0 .. Len(p) - 1, NEW a \in Seq(S), NEW b \in Seq(S)
  PROVE  Flows(p, n, m, a, b) => Flows(p, n, m + 1, a, b \o p[m + 1])
<1> Len(p) \in Nat
  OBVIOUS
<1>1. \A l \in 1 .. Len(p) : Stream(p)[l] = Stream(p)[l - 1] \o p[l]
  BY StreamGrows
<1>2. m + 1 \in 1 .. Len(p)
  OBVIOUS
<1>3. PICK e \in Seq(S) : e = p[m + 1]
  BY <1>2
<1>4. PICK s \in Seq(S) : s = Stream(p)[n]
  BY StreamTyped
<1>5. Stream(p)[m + 1] = Stream(p)[m] \o e
  <2>1. PICK l \in 1 .. Len(p) : l = m + 1 /\ l - 1 = m
    BY <1>2
  <2>2. Stream(p)[l] = Stream(p)[l - 1] \o p[l]
    BY <1>1
  <2> QED
    BY <1>3, <2>1, <2>2
<1>6. Cat(Cat(s, Cat(a, b)), e) = Cat(s, Cat(a, Cat(b, e)))
  BY Regroup
<1> QED
  BY <1>3, <1>4, <1>5, <1>6 DEF Cat, Flows

\* Where no packet is missing there is nothing, neither in the buffer nor on the way.
LEMMA NothingFlows ==
  ASSUME NEW p \in Seq(Seq(Wire)), NEW n \in 0 .. Len(p), NEW m \in n .. Len(p),
         NEW in \in Seq(Wire), NEW up \in Seq(Wire), Flows(p, n, m, in, up)
  PROVE  n = m => in = <<>> /\ up = <<>>
<1>1. PICK r \in Seq(Wire) : r = in \o up
  BY ConcatProperties
<1>2. Stream(p)[n] \o r = Stream(p)[m]
  BY <1>1 DEF Flows
<1>3. n = m => r = <<>>
  BY <1>2, NextPacket
<1> QED
  BY <1>1, <1>3, ConcatEqualIffEmpty

\* The first packet of a buffer, with what is still on the way behind it.
LEMMA DecodeFirst ==
  ASSUME NEW p \in Seq(Seq(Wire)), Framed(p), NEW n \in 0 .. Len(p), NEW m \in n .. Len(p),
         NEW in \in Seq(Wire), NEW up \in Seq(Wire), Flows(p, n, m, in, up)
  PROVE  /\ Calc!Decode(in) = Calc!Nothing /\ Len(up) = 0 => n = m
         /\ Calc!Decode(in) # Calc!Nothing =>
              /\ n < m /\ n + 1 \in 1 .. Len(p)
              /\ Calc!Decode(in).content = SubSeq(p[n + 1], 2, Len(p[n + 1]))
              /\ Calc!Decode(in).rest \in Seq(Wire) /\ Flows(p, n + 1, m, Calc!Decode(in).rest, up)
<1> PICK d : d = Calc!Decode(in)
  OBVIOUS
<1> SUFFICES /\ d = Calc!Nothing /\ Len(up) = 0 => n = m
             /\ d # Calc!Nothing =>
                  /\ n < m /\ n + 1 \in 1 .. Len(p) /\ d.content = SubSeq(p[n + 1], 2, Len(p[n + 1]))
                  /\ d.rest \in Seq(Wire) /\ Flows(p, n + 1, m, d.rest, up)
  OBVIOUS
<1> n \in Nat /\ m \in Nat /\ n <= m /\ Len(p) \in Nat
  OBVIOUS
<1>1. in \o up \in Seq(Wire)
  BY ConcatProperties
<1>2. n = m => in = <<>> /\ up = <<>>
  BY NothingFlows
<1>3. in = <<>> => d = Calc!Nothing
  BY DEF Calc!Decode
<1>4. CASE n = m
  BY <1>2, <1>3, <1>4
<1>5. CASE n # m
  <2>1. n + 1 \in 1 .. Len(p) /\ \E t \in Seq(Wire) : in \o up = p[n + 1] \o t
    <3>1. PICK r \in Seq(Wire) : r = in \o up
      BY <1>1
    <3>2. Stream(p)[n] \o r = Stream(p)[m]
      BY <3>1 DEF Flows
    <3>3. n + 1 \in 1 .. Len(p) /\ Starts(Wire, r, p[n + 1])
      BY <1>5, <3>2, NextPacket
    <3> QED
      BY <3>1, <3>3 DEF Starts
  <2>e. PICK e \in Seq(Wire) : e = p[n + 1]
    BY <2>1
  <2>t. PICK t \in Seq(Wire) : in \o up = e \o t
    BY <2>1, <2>e
  <2>2. Len(e) \in Nat /\ Len(e) >= 2 /\ e[1].len + 1 = Len(e) /\ Len(in) \in Nat /\ Len(t) \in Nat /\ Len(up) \in Nat
    BY <2>1, <2>e DEF Framed
  <2>3. Len(in) + Len(up) = Len(e) + Len(t)
    BY <2>t, ConcatProperties
  <2>4. Len(up) = 0 => Len(in) >= Len(e)
    BY <2>2, <2>3
  <2>5. in # <<>> => in[1] = e[1]
    <3>1. in # <<>> => Len(in) >= 1
      BY <2>2
    <3>2. (e \o t)[1] = e[1]
      BY <2>2, ConcatProperties
    <3>3. in # <<>> => (in \o up)[1] = in[1]
      BY <2>2, <3>1, ConcatProperties
    <3> QED
      BY <2>t, <3>2, <3>3
  <2>6. CASE in = <<>> \/ Len(in) < Len(e)
    <3>1. d = Calc!Nothing
      BY <2>2, <2>5, <2>6 DEF Calc!Decode
    <3>2. Len(up) # 0
      <4>1. Len(in) < Len(e)
        BY <2>2, <2>6
      <4> QED
        BY <2>2, <2>4, <4>1
    <3> QED
      BY <1>5, <3>1, <3>2
  <2>7. CASE in # <<>> /\ Len(in) >= Len(e)
    <3> DEFINE content == SubSeq(in, 2, Len(e))
               rest == SubSeq(in, Len(e) + 1, Len(in))
    <3>1. d = IF Len(in) < Len(e) THEN Calc!Nothing ELSE [content |-> content, rest |-> rest]
      BY <2>2, <2>5, <2>7 DEF Calc!Decode
    <3>2. d = [content |-> content, rest |-> rest]
      BY <2>2, <2>7, <3>1
    <3>3. 1 \in 1 .. Len(in) /\ 2 \in 1 .. Len(in) /\ Len(e) \in 1 .. Len(in) /\ 1 \in 1 .. Len(e) /\ 2 \in 1 .. Len(e)
          /\ Len(e) \in 1 .. Len(e)
      BY <2>2, <2>7
    <3>4. content = SubSeq(e, 2, Len(e))
      <4>1. SubSeq(in \o up, 2, Len(e)) = content
        BY <3>3, SubSeqOfConcat1
      <4>2. SubSeq(e \o t, 2, Len(e)) = SubSeq(e, 2, Len(e))
        BY <3>3, SubSeqOfConcat1
      <4> QED
        BY <2>t, <4>1, <4>2
    <3>5. SubSeq(in, 1, Len(e)) = e
      <4>1. SubSeq(in \o up, 1, Len(e)) = SubSeq(in, 1, Len(e))
        BY <3>3, SubSeqOfConcat1
      <4>2. SubSeq(e \o t, 1, Len(e)) = SubSeq(e, 1, Len(e))
        BY <3>3, SubSeqOfConcat1
      <4>3. SubSeq(e, 1, Len(e)) = e
        BY SubSeqFull
      <4> QED
        BY <2>t, <4>1, <4>2, <4>3
    <3>6. rest \in Seq(Wire)
      <4>1. \A i \in Len(e) + 1 .. Len(in) : in[i] \in Wire
        BY <2>2
      <4> QED
        BY <2>2, <4>1, SubSeqProperties
    <3>7. in = e \o rest
      <4>1. 1 \in 1 .. Len(in) + 1 /\ Len(e) \in 1 - 1 .. Len(in) /\ Len(in) \in Len(e) .. Len(in)
        BY <2>2, <2>7
      <4>2. SubSeq(in, 1, Len(e)) \o SubSeq(in, Len(e) + 1, Len(in)) = SubSeq(in, 1, Len(in))
        BY <4>1, ConcatAdjacentSubSeq
      <4> QED
        BY <3>5, <4>2, SubSeqFull
    <3>8. Len(content) = Len(e) - 1
      <4>1. \A i \in 2 .. Len(e) : in[i] \in Wire
        BY <2>2, <2>7
      <4> QED
        BY <2>2, <4>1, SubSeqProperties
    <3> HIDE DEF content, rest
    <3>9. d.content = content /\ d.rest = rest /\ d # Calc!Nothing
      <4>1. content # <<>>
        BY <2>2, <3>8
      <4> QED
        BY <3>2, <4>1 DEF Calc!Nothing
    <3>r. PICK b \in Seq(Wire) : b = rest
      BY <3>6
    <3>10. Stream(p)[n + 1] \o (b \o up) = Stream(p)[m]
      <4>s. PICK s \in Seq(Wire) : s = Stream(p)[n]
        BY StreamTyped
      <4>1. Stream(p)[n + 1] = s \o e
        <5>1. \A k \in 1 .. Len(p) : Stream(p)[k] = Stream(p)[k - 1] \o p[k]
          BY StreamGrows
        <5>2. PICK l \in 1 .. Len(p) : l = n + 1 /\ l - 1 = n
          BY <2>1
        <5>3. Stream(p)[l] = Stream(p)[l - 1] \o p[l]
          BY <5>1
        <5> QED
          BY <2>e, <4>s, <5>2, <5>3
      <4>2. s \o ((e \o b) \o up) = Stream(p)[m]
        BY <3>7, <3>r, <4>s DEF Flows
      <4>3. Cat(Cat(s, e), Cat(b, up)) = Cat(s, Cat(Cat(e, b), up))
        BY Regroup
      <4> QED
        BY <4>1, <4>2, <4>3 DEF Cat
    <3>11. n < m
      BY <1>5
    <3>12. d.content = SubSeq(p[n + 1], 2, Len(p[n + 1]))
      BY <2>e, <3>4, <3>9
    <3> QED
      BY <1>5, <2>1, <3>9, <3>r, <3>10, <3>11, <3>12 DEF Flows
  <2> QED
    <3>1. in = <<>> \/ Len(in) < Len(e) \/ (in # <<>> /\ Len(in) >= Len(e))
      BY <2>2
    <3> QED
      BY <2>6, <2>7, <3>1
<1> QED
  BY <1>4, <1>5

-----------------------------------------------------------------------------
(***************************************************************************)
(* Questions, answers and their packets.                                   *)
(***************************************************************************)
LEMMA QuestionsOf ==
  ASSUME NEW c \in CalcClients
  PROVE  /\ Asks[c] \in Seq(Questions) /\ Len(Asks[c]) \in Nat
         /\ \A i \in 1 .. Len(Asks[c]) : Asks[c][i] \in Questions
<1>1. Asks[c] \in Seq(Questions)
  BY CalcAssumption DEF CalcClients, Questions
<1> QED
  BY <1>1

\* The program's switch gives an answer, and it is the right one.
LEMMA HelperIsCorrect ==
  ASSUME NEW q \in Questions
  PROVE  Calc!CalculatorHelper(q) \in Answers /\ Calc!Correct(q, Calc!CalculatorHelper(q))
<1> PICK a : a = Calc!CalculatorHelper(q)
  OBVIOUS
<1> PICK x \in Nat, y \in Nat, op \in STRING : x = q.x /\ y = q.y /\ op = q.op
  BY DEF Questions
<1>1. CASE op = "+"
  <2>1. a = [result |-> x + y, code |-> 0]
    BY <1>1 DEF Calc!CalculatorHelper
  <2> QED
    BY <1>1, <2>1 DEF Answers, Calc!Correct
<1>2. CASE op = "-"
  <2>1. a = [result |-> x - y, code |-> 0]
    BY <1>2 DEF Calc!CalculatorHelper
  <2> QED
    BY <1>2, <2>1 DEF Answers, Calc!Correct
<1>3. CASE op = "*"
  <2>1. a = [result |-> x * y, code |-> 0]
    BY <1>3 DEF Calc!CalculatorHelper
  <2> QED
    BY <1>3, <2>1 DEF Answers, Calc!Correct
<1>4. CASE op \in {"/", "%"} /\ y = 0
  <2>1. a = [result |-> 0, code |-> IF op = "/" THEN 1 ELSE 2]
    BY <1>4 DEF Calc!CalculatorHelper
  <2> QED
    BY <1>4, <2>1 DEF Answers, Calc!Correct
<1>5. CASE op \in {"/", "%"} /\ y # 0
  <2>1. PICK q1 \in Nat, r1 \in 0 .. y - 1 : q1 = x \div y /\ r1 = x % y /\ x = q1 * y + r1
    <3>1. x = (x \div y) * y + (x % y)
      BY <1>5
    <3>2. x \div y \in Nat /\ x % y \in 0 .. y - 1
      BY <1>5
    <3> QED
      BY <3>1, <3>2
  <2>4. q1 <= x /\ x - q1 * y = r1
    <3>1. x = q1 * y + r1 /\ y # 0
      BY <1>5, <2>1
    <3> QED
      BY <3>1
  <2>2. CASE op = "/"
    <3>1. a = [result |-> q1, code |-> 0]
      BY <1>5, <2>1, <2>2 DEF Calc!CalculatorHelper
    <3>2. q.x - q1 * q.y \in 0 .. q.y - 1
      BY <2>1, <2>4
    <3> QED
      BY <1>5, <2>2, <3>1, <3>2 DEF Answers, Calc!Correct
  <2>3. CASE op = "%"
    <3>1. a = [result |-> r1, code |-> 0] /\ r1 < y
      BY <1>5, <2>1, <2>3 DEF Calc!CalculatorHelper
    <3>2. \E n \in 0 .. q.x : q.x = n * q.y + r1
      BY <2>1, <2>4
    <3> QED
      BY <1>5, <2>3, <3>1, <3>2 DEF Answers, Calc!Correct
  <2> QED
    BY <1>5, <2>2, <2>3
<1>6. CASE op \notin {"+", "-", "*", "/", "%"}
  <2>1. a = [result |-> 0, code |-> 3]
    BY <1>6 DEF Calc!CalculatorHelper
  <2> QED
    BY <1>6, <2>1 DEF Answers, Calc!Correct
<1> QED
  BY <1>1, <1>2, <1>3, <1>4, <1>5, <1>6

\* A packet says how long it is and has v in its content.
LEMMA EncodeFrames ==
  ASSUME NEW v \in Questions \cup Answers, NEW n \in {1, 2}, NEW e, e = Calc!Encode(Calc!Body(v, n))
  PROVE  e \in Seq(Wire) /\ Len(e) >= 2 /\ e[1].len + 1 = Len(e) /\ Calc!Deserialize(SubSeq(e, 2, Len(e))) = v
<1>1. PICK b : b = [i \in 1 .. n |-> [len |-> 0, val |-> v]]
  OBVIOUS
<1>2. b \in Seq(Wire) /\ Len(b) = n /\ b[1].val = v
  <2>1. [len |-> 0, val |-> v] \in Wire
    BY DEF Wire
  <2> QED
    BY <1>1, <2>1
<1>3. PICK h : h = <<[len |-> n, val |-> <<>>]>>
  OBVIOUS
<1>4. h \in Seq(Wire) /\ Len(h) = 1 /\ h[1].len = n
  <2>1. [len |-> n, val |-> <<>>] \in Wire
    BY DEF Wire
  <2>2. PICK w \in Wire : w = [len |-> n, val |-> <<>>]
    BY <2>1
  <2>3. <<w>> \in Seq(Wire) /\ Len(<<w>>) = 1 /\ <<w>>[1] = w
    OBVIOUS
  <2>4. w.len = n
    BY <2>2
  <2> QED
    BY <1>3, <2>2, <2>3, <2>4
<1>5. e = h \o b
  BY <1>1, <1>2, <1>3 DEF Calc!Encode, Calc!Body
<1>6. e \in Seq(Wire) /\ Len(e) = n + 1 /\ e[1] = h[1] /\ e[2] = b[1]
  <2>1. 1 \in 1 .. Len(h) + Len(b) /\ 2 \in 1 .. Len(h) + Len(b) /\ 1 <= Len(h) /\ ~(2 <= Len(h)) /\ 2 - Len(h) = 1
        /\ Len(h) + Len(b) = n + 1
    BY <1>2, <1>4
  <2>2. /\ h \o b \in Seq(Wire) /\ Len(h \o b) = Len(h) + Len(b)
        /\ \A i \in 1 .. Len(h) + Len(b) : (h \o b)[i] = IF i <= Len(h) THEN h[i] ELSE b[i - Len(h)]
    BY <1>2, <1>4, ConcatProperties
  <2> QED
    BY <1>5, <2>1, <2>2
<1>7. SubSeq(e, 2, Len(e))[1] = e[2]
  <2>1. \A i \in 2 .. Len(e) : e[i] \in Wire
    BY <1>6
  <2>2. 1 \in 1 .. Len(e) - 2 + 1 /\ 2 + 1 - 1 = 2 /\ Len(e) \in Int
    BY <1>6
  <2> QED
    BY <2>1, <2>2, SubSeqProperties
<1> QED
  BY <1>2, <1>4, <1>6, <1>7 DEF Calc!Deserialize

\* The packets of questions and answers are framed and hold what was put into them.
LEMMA PacketsOf ==
  ASSUME NEW c \in CalcClients
  PROVE  /\ Ups(c) \in Seq(Seq(Wire)) /\ Len(Ups(c)) = Len(Asks[c]) /\ Framed(Ups(c))
         /\ Downs(c) \in Seq(Seq(Wire)) /\ Len(Downs(c)) = Len(Asks[c]) /\ Framed(Downs(c))
         /\ \A i \in 1 .. Len(Asks[c]) :
              /\ Calc!Deserialize(SubSeq(Ups(c)[i], 2, Len(Ups(c)[i]))) = Asks[c][i]
              /\ Calc!Deserialize(SubSeq(Downs(c)[i], 2, Len(Downs(c)[i]))) = Calc!CalculatorHelper(Asks[c][i])
<1> PICK n \in Nat : n = Len(Asks[c])
  BY QuestionsOf
<1>1. ASSUME NEW i \in 1 .. n
      PROVE  LET e == Calc!Encode(Calc!SerializeRequest(Asks[c][i]))
             IN e \in Seq(Wire) /\ Len(e) >= 2 /\ e[1].len + 1 = Len(e)
                /\ Calc!Deserialize(SubSeq(e, 2, Len(e))) = Asks[c][i]
  <2>1. Asks[c][i] \in Questions \cup Answers /\ Calc!Digits(Asks[c][i].x) \in {1, 2}
    BY QuestionsOf DEF Calc!Digits
  <2> QED
    BY <2>1, EncodeFrames DEF Calc!SerializeRequest
<1>2. ASSUME NEW i \in 1 .. n
      PROVE  LET e == Calc!Encode(Calc!SerializeResponse(Calc!CalculatorHelper(Asks[c][i])))
             IN e \in Seq(Wire) /\ Len(e) >= 2 /\ e[1].len + 1 = Len(e)
                /\ Calc!Deserialize(SubSeq(e, 2, Len(e))) = Calc!CalculatorHelper(Asks[c][i])
  <2>1. PICK a : a = Calc!CalculatorHelper(Asks[c][i])
    OBVIOUS
  <2>2. a \in Questions \cup Answers /\ Calc!Digits(a.result) \in {1, 2}
    BY <2>1, QuestionsOf, HelperIsCorrect DEF Calc!Digits
  <2> QED
    BY <2>1, <2>2, EncodeFrames DEF Calc!SerializeResponse
<1>3. \A i \in 1 .. n : /\ Ups(c)[i] = Calc!Encode(Calc!SerializeRequest(Asks[c][i]))
                        /\ Downs(c)[i] = Calc!Encode(Calc!SerializeResponse(Calc!CalculatorHelper(Asks[c][i])))
  BY DEF Ups, Downs
<1>4. Ups(c) = [i \in 1 .. n |-> Ups(c)[i]] /\ Downs(c) = [i \in 1 .. n |-> Downs(c)[i]]
  BY DEF Ups, Downs
<1>5. Ups(c) \in Seq(Seq(Wire)) /\ Len(Ups(c)) = n /\ Downs(c) \in Seq(Seq(Wire)) /\ Len(Downs(c)) = n
  <2>1. \A i \in 1 .. n : Ups(c)[i] \in Seq(Wire) /\ Downs(c)[i] \in Seq(Wire)
    BY <1>1, <1>2, <1>3
  <2>2. Ups(c) \in [1 .. n -> Seq(Wire)] /\ Downs(c) \in [1 .. n -> Seq(Wire)]
    BY <1>4, <2>1
  <2>3. \A f \in [1 .. n -> Seq(Wire)] : f \in Seq(Seq(Wire)) /\ Len(f) = n
    OBVIOUS
  <2> QED
    BY <2>2, <2>3
<1>6. Framed(Ups(c)) /\ Framed(Downs(c))
  BY <1>1, <1>2, <1>3, <1>5 DEF Framed
<1> QED
  BY <1>1, <1>2, <1>3, <1>5, <1>6

-----------------------------------------------------------------------------
(***************************************************************************)
(* The calculator's invariant.                                             *)
(***************************************************************************)
LEMMA CalcInit == Calc!Init => CalcInv
<1> SUFFICES ASSUME Calc!Init PROVE CalcInv
  OBVIOUS
<1>1. 1 .. Len(<<>>) = {} /\ Len(<<>>) = 0
  OBVIOUS
<1>2. CalcTypes
  <2>1. <<>> \in Seq(CalcClients) /\ <<>> \in Seq(Wire) /\ <<>> \in Seq(Answers)
    OBVIOUS
  <2> QED
    BY <2>1 DEF Calc!Init, CalcTypes, CalcChildren, CalcLinks, CalcAskers
<1>3. ForkedOnce
  BY <1>1 DEF Calc!Init, ForkedOnce
<1>4. ASSUME NEW c \in CalcClients
      PROVE  Progress(c) /\ UpStream(c) /\ DownStream(c) /\ Turns(c) /\ ReadsOn(c)
  <2>1. /\ child[c].pc = "none" /\ child[c].in = <<>> /\ child[c].served = <<>>
        /\ link[c].up = <<>> /\ link[c].down = <<>>
        /\ asker[c].pc = "connect" /\ asker[c].asked = 0 /\ asker[c].got = <<>> /\ asker[c].in = <<>>
    BY <1>4 DEF Calc!Init
  <2>2. Progress(c)
    BY <1>1, <2>1, QuestionsOf DEF Progress
  <2>3. Stream(Ups(c))[0] = <<>> /\ Stream(Downs(c))[0] = <<>>
    BY PacketsOf, QuestionsOf, StreamGrows
  <2>4. <<>> \o (<<>> \o <<>>) = <<>>
    OBVIOUS
  <2>5. UpStream(c) /\ DownStream(c)
    BY <1>1, <2>1, <2>3, <2>4 DEF UpStream, DownStream, Flows
  <2>6. Turns(c) /\ ReadsOn(c)
    BY <2>1 DEF Turns, ReadsOn, Calc!Decode
  <2> QED
    BY <2>2, <2>5, <2>6
<1> QED
  BY <1>2, <1>3, <1>4 DEF CalcInv, CalcRest

\* The rest of the invariant is about one client.
CalcOne(c) == Progress(c) /\ UpStream(c) /\ DownStream(c) /\ Turns(c) /\ ReadsOn(c)

\* So it holds for the clients a step leaves alone.
LEMMA OthersStay ==
  ASSUME NEW d \in CalcClients, CalcOne(d), child'[d] = child[d], asker'[d] = asker[d], link'[d] = link[d]
  PROVE  CalcOne(d)'
  BY DEF CalcOne, Progress, UpStream, DownStream, Turns, ReadsOn

\* What a client has in its hands.
LEMMA CalcFacts ==
  ASSUME CalcTypes, NEW c \in CalcClients
  PROVE  /\ child[c] \in CalcChildren /\ link[c] \in CalcLinks /\ asker[c] \in CalcAskers
         /\ child[c].in \in Seq(Wire) /\ child[c].served \in Seq(Answers)
         /\ link[c].up \in Seq(Wire) /\ link[c].down \in Seq(Wire)
         /\ asker[c].asked \in Nat /\ asker[c].got \in Seq(Answers) /\ asker[c].in \in Seq(Wire)
         /\ Len(child[c].served) \in Nat /\ Len(asker[c].got) \in Nat
<1>1. child[c] \in CalcChildren /\ link[c] \in CalcLinks /\ asker[c] \in CalcAskers
  BY DEF CalcTypes
<1>2. /\ child[c].in \in Seq(Wire) /\ child[c].served \in Seq(Answers)
      /\ link[c].up \in Seq(Wire) /\ link[c].down \in Seq(Wire)
      /\ asker[c].asked \in Nat /\ asker[c].got \in Seq(Answers) /\ asker[c].in \in Seq(Wire)
  BY <1>1 DEF CalcChildren, CalcLinks, CalcAskers
<1> QED
  BY <1>1, <1>2

\* What a read moves from the way into the buffer.
LEMMA ReadMoves ==
  ASSUME NEW in \in Seq(Wire), NEW up \in Seq(Wire), NEW k \in 1 .. Len(up)
  PROVE  /\ SubSeq(up, 1, k) \in Seq(Wire) /\ SubSeq(up, k + 1, Len(up)) \in Seq(Wire)
         /\ in \o SubSeq(up, 1, k) \in Seq(Wire)
         /\ (in \o SubSeq(up, 1, k)) \o SubSeq(up, k + 1, Len(up)) = in \o up
<1>1. Len(up) \in Nat
  OBVIOUS
<1>2. \A i \in 1 .. Len(up) : up[i] \in Wire
  OBVIOUS
<1>3. SubSeq(up, 1, k) \in Seq(Wire)
  <2>1. \A i \in 1 .. k : up[i] \in Wire
    BY <1>1, <1>2
  <2> QED
    BY <1>1, <2>1, SubSeqProperties
<1>4. SubSeq(up, k + 1, Len(up)) \in Seq(Wire)
  <2>1. \A i \in k + 1 .. Len(up) : up[i] \in Wire
    BY <1>1, <1>2
  <2> QED
    BY <1>1, <2>1, SubSeqProperties
<1>5. SubSeq(up, 1, k) \o SubSeq(up, k + 1, Len(up)) = up
  <2>1. 1 \in 1 .. Len(up) + 1 /\ k \in 1 - 1 .. Len(up) /\ Len(up) \in k .. Len(up)
    BY <1>1
  <2>2. SubSeq(up, 1, k) \o SubSeq(up, k + 1, Len(up)) = SubSeq(up, 1, Len(up))
    BY <2>1, ConcatAdjacentSubSeq
  <2> QED
    BY <2>2, SubSeqFull
<1>6. PICK a \in Seq(Wire) : a = SubSeq(up, 1, k)
  BY <1>3
<1>7. PICK b \in Seq(Wire) : b = SubSeq(up, k + 1, Len(up))
  BY <1>4
<1>8. (in \o a) \o b = in \o (a \o b)
  BY ConcatAssociative
<1>9. in \o a \in Seq(Wire)
  BY ConcatProperties
<1> QED
  BY <1>3, <1>4, <1>5, <1>6, <1>7, <1>8, <1>9

\* A step that is about one client.
LEMMA OneMoves ==
  ASSUME CalcInv, NEW c \in CalcClients, CalcTypes', ForkedOnce', CalcOne(c)',
         \A d \in CalcClients : d # c => child'[d] = child[d] /\ asker'[d] = asker[d] /\ link'[d] = link[d]
  PROVE  CalcInv'
<1>1. ASSUME NEW d \in CalcClients PROVE CalcOne(d)'
  <2>1. CASE d = c
    BY <2>1
  <2>2. CASE d # c
    <3>1. CalcOne(d)
      BY DEF CalcInv, CalcRest, CalcOne
    <3> QED
      BY <2>2, <3>1, OthersStay
  <2> QED
    BY <2>1, <2>2
<1>2. CalcRest'
  BY <1>1 DEF CalcRest, CalcOne
<1> QED
  BY <1>2 DEF CalcInv

\* Who is forked once stays so when nobody moves to another place.
LEMMA ForkedStays ==
  ASSUME CalcTypes, ForkedOnce, UNCHANGED <<parent, pending>>,
         \A d \in CalcClients : /\ asker'[d].pc = "connect" => asker[d].pc = "connect"
                                /\ child[d].pc = "none" => child'[d].pc = "none"
  PROVE  ForkedOnce'
<1>1. /\ \A i \in 1 .. Len(pending) : pending[i] \in CalcClients
      /\ \A c \in parent.conn : c \in CalcClients
  BY DEF CalcTypes
<1> QED
  BY <1>1 DEF ForkedOnce

\* A child reads some more of the stream.
LEMMA ChildReads ==
  ASSUME CalcInv, NEW c \in CalcClients, Calc!ChildRead(c)
  PROVE  CalcInv'
<1> CalcTypes /\ ForkedOnce /\ CalcOne(c)
  BY DEF CalcInv, CalcRest, CalcOne
<1>1. PICK k \in 1 .. Chunk :
        /\ k <= Len(link[c].up)
        /\ child' = [child EXCEPT ![c].pc = "decode", ![c].in = @ \o SubSeq(link[c].up, 1, k)]
        /\ link' = [link EXCEPT ![c].up = SubSeq(@, k + 1, Len(@))]
  BY DEF Calc!ChildRead
<1>2. child[c].pc = "read" /\ UNCHANGED <<parent, pending, holders, asker>>
  BY DEF Calc!ChildRead
<1>3. k \in 1 .. Len(link[c].up)
  BY <1>1, CalcAssumption, CalcFacts
<1>4. PICK in \in Seq(Wire), up \in Seq(Wire) :
        /\ in = child[c].in \o SubSeq(link[c].up, 1, k) /\ up = SubSeq(link[c].up, k + 1, Len(link[c].up))
        /\ in \o up = child[c].in \o link[c].up
  BY <1>3, CalcFacts, ReadMoves
<1>5. /\ child' = [child EXCEPT ![c].pc = "decode", ![c].in = in]
      /\ link' = [link EXCEPT ![c].up = up]
      /\ child \in [CalcClients -> CalcChildren] /\ link \in [CalcClients -> CalcLinks]
  BY <1>1, <1>4 DEF CalcTypes
<1>6. /\ child'[c].pc = "decode" /\ child'[c].in = in /\ child'[c].served = child[c].served
      /\ link'[c].up = up /\ link'[c].down = link[c].down
      /\ \A d \in CalcClients : d # c => child'[d] = child[d] /\ link'[d] = link[d]
  BY <1>5 DEF CalcChildren, CalcLinks
<1>7. CalcTypes'
  <2>1. child' \in [CalcClients -> CalcChildren] /\ link' \in [CalcClients -> CalcLinks]
    BY <1>5 DEF CalcChildren, CalcLinks
  <2> QED
    BY <1>2, <2>1 DEF CalcTypes
<1>8. ForkedOnce'
  <2>1. \A d \in CalcClients : child[d].pc = "none" => child'[d].pc = "none"
    BY <1>2, <1>6
  <2> QED
    BY <1>2, <2>1, ForkedStays
<1>9. CalcOne(c)'
  <2>1. Progress(c)' /\ DownStream(c)' /\ Turns(c)'
    BY <1>2, <1>6 DEF CalcOne, Progress, DownStream, Turns
  <2>2. UpStream(c)'
    BY <1>2, <1>4, <1>6 DEF CalcOne, UpStream, Flows
  <2>3. ReadsOn(c)'
    BY <1>6 DEF ReadsOn
  <2> QED
    BY <2>1, <2>2, <2>3 DEF CalcOne
<1> QED
  BY <1>2, <1>6, <1>7, <1>8, <1>9, OneMoves

\* A child answers the first packet in its buffer, or finds that none is whole.
LEMMA ChildDecodes ==
  ASSUME CalcInv, NEW c \in CalcClients, Calc!ChildDecode(c)
  PROVE  CalcInv'
<1> CalcTypes /\ ForkedOnce /\ CalcOne(c)
  BY DEF CalcInv, CalcRest, CalcOne
<1>1. PICK d : d = Calc!Decode(child[c].in)
  OBVIOUS
<1>2. PICK a : a = Calc!CalculatorHelper(Calc!Deserialize(d.content))
  OBVIOUS
<1>3. /\ child[c].pc = "decode" /\ UNCHANGED <<parent, pending, holders, asker>>
      /\ IF d = Calc!Nothing
         THEN child' = [child EXCEPT ![c].pc = "read"] /\ UNCHANGED link
         ELSE /\ child' = [child EXCEPT ![c].in = d.rest, ![c].served = Append(@, a)]
              /\ IF asker[c].pc \in {"done", "aborted"} THEN UNCHANGED link
                 ELSE link' = [link EXCEPT ![c].down = @ \o Calc!Encode(Calc!SerializeResponse(a))]
  BY <1>1, <1>2 DEF Calc!ChildDecode
<1>4. child \in [CalcClients -> CalcChildren] /\ link \in [CalcClients -> CalcLinks]
  BY DEF CalcTypes
<1>5. CASE d = Calc!Nothing
  <2>1. child' = [child EXCEPT ![c].pc = "read"] /\ UNCHANGED link
    BY <1>3, <1>5
  <2>2. /\ child'[c].pc = "read" /\ child'[c].in = child[c].in /\ child'[c].served = child[c].served
        /\ \A e \in CalcClients : e # c => child'[e] = child[e]
    BY <1>4, <2>1 DEF CalcChildren
  <2>3. CalcTypes'
    <3>1. child' \in [CalcClients -> CalcChildren]
      BY <1>4, <2>1 DEF CalcChildren
    <3> QED
      BY <1>3, <2>1, <3>1 DEF CalcTypes
  <2>4. ForkedOnce'
    <3>1. \A e \in CalcClients : child[e].pc = "none" => child'[e].pc = "none"
      BY <1>3, <2>2
    <3> QED
      BY <1>3, <3>1, ForkedStays
  <2>5. CalcOne(c)'
    <3>1. Progress(c)' /\ UpStream(c)' /\ DownStream(c)' /\ Turns(c)'
      BY <1>3, <2>1, <2>2 DEF CalcOne, Progress, UpStream, DownStream, Turns
    <3>2. ReadsOn(c)'
      BY <1>1, <1>5, <2>2 DEF ReadsOn
    <3> QED
      BY <3>1, <3>2 DEF CalcOne
  <2> QED
    BY <1>3, <2>1, <2>2, <2>3, <2>4, <2>5, OneMoves
<1>6. CASE d # Calc!Nothing
  <2> DEFINE n == Len(child[c].served)
             m == asker[c].asked
  <2>1. /\ Ups(c) \in Seq(Seq(Wire)) /\ Len(Ups(c)) = Len(Asks[c]) /\ Framed(Ups(c)) /\ Len(Asks[c]) \in Nat
        /\ n \in 0 .. Len(Ups(c)) /\ m \in n .. Len(Ups(c))
    BY PacketsOf, QuestionsOf, CalcFacts DEF CalcOne, Progress
  <2>2. /\ n < m /\ n + 1 \in 1 .. Len(Ups(c)) /\ d.content = SubSeq(Ups(c)[n + 1], 2, Len(Ups(c)[n + 1]))
        /\ d.rest \in Seq(Wire) /\ Flows(Ups(c), n + 1, m, d.rest, link[c].up)
    <3>1. child[c].in \in Seq(Wire) /\ link[c].up \in Seq(Wire)
      BY CalcFacts
    <3>2. Flows(Ups(c), n, m, child[c].in, link[c].up)
      BY DEF CalcOne, UpStream
    <3> HIDE DEF n, m
    <3> QED
      BY <1>1, <1>6, <2>1, <3>1, <3>2, DecodeFirst
  <2>3. a = Calc!CalculatorHelper(Asks[c][n + 1]) /\ a \in Answers
    <3>1. Calc!Deserialize(d.content) = Asks[c][n + 1] /\ Asks[c][n + 1] \in Questions
      BY <2>1, <2>2, PacketsOf, QuestionsOf
    <3> QED
      BY <1>2, <3>1, HelperIsCorrect
  <2>4. child' = [child EXCEPT ![c].in = d.rest, ![c].served = Append(child[c].served, a)]
    BY <1>3, <1>6
  <2>5. /\ child'[c].pc = "decode" /\ child'[c].in = d.rest /\ child'[c].served = Append(child[c].served, a)
        /\ child' \in [CalcClients -> CalcChildren]
        /\ \A e \in CalcClients : e # c => child'[e] = child[e]
    <3>1. Append(child[c].served, a) \in Seq(Answers)
      BY <2>3, CalcFacts, AppendProperties
    <3> PICK more \in Seq(Answers) : more = Append(child[c].served, a)
      BY <3>1
    <3> QED
      BY <1>3, <1>4, <2>2, <2>4 DEF CalcChildren
  <2>6. /\ Len(child'[c].served) = n + 1 /\ child'[c].served[n + 1] = a
        /\ \A i \in 1 .. n : child'[c].served[i] = child[c].served[i]
    BY <2>3, <2>5, CalcFacts, AppendProperties
  <2>7. PICK down \in Seq(Wire) :
          down = IF asker[c].pc \in {"done", "aborted"} THEN link[c].down ELSE link[c].down \o Downs(c)[n + 1]
    <3>1. link[c].down \in Seq(Wire) /\ Downs(c)[n + 1] \in Seq(Wire)
      BY <2>1, <2>2, CalcFacts, PacketsOf
    <3> QED
      BY <3>1, ConcatProperties
  <2>8. link' = [link EXCEPT ![c].down = down]
    <3>1. Downs(c)[n + 1] = Calc!Encode(Calc!SerializeResponse(a))
      BY <2>1, <2>2, <2>3 DEF Downs
    <3>2. CASE asker[c].pc \in {"done", "aborted"}
      <4>1. link' = link /\ down = link[c].down
        BY <1>3, <1>6, <2>7, <3>2
      <4> QED
        BY <1>4, <4>1 DEF CalcLinks
    <3>3. CASE asker[c].pc \notin {"done", "aborted"}
      BY <1>3, <1>6, <2>7, <3>1, <3>3
    <3> QED
      BY <3>2, <3>3
  <2>9. /\ link'[c].down = down /\ link'[c].up = link[c].up /\ link' \in [CalcClients -> CalcLinks]
        /\ \A e \in CalcClients : e # c => link'[e] = link[e]
    BY <1>4, <2>8 DEF CalcLinks
  <2>10. CalcTypes'
    BY <1>3, <2>5, <2>9 DEF CalcTypes
  <2>11. ForkedOnce'
    <3>1. \A e \in CalcClients : child[e].pc = "none" => child'[e].pc = "none"
      BY <1>3, <2>5
    <3> QED
      BY <1>3, <3>1, ForkedStays
  <2>12. CalcOne(c)'
    <3>1. Progress(c)'
      <4>1. Len(asker[c].got) <= n + 1 /\ n + 1 <= m
        BY <2>1, <2>2, CalcFacts DEF CalcOne, Progress
      <4>2. \A i \in 1 .. n + 1 : child'[c].served[i] = Calc!CalculatorHelper(Asks[c][i])
        <5> SUFFICES ASSUME NEW i \in 1 .. n + 1 PROVE child'[c].served[i] = Calc!CalculatorHelper(Asks[c][i])
          OBVIOUS
        <5>1. CASE i = n + 1
          BY <2>3, <2>6, <5>1
        <5>2. CASE i # n + 1
          <6>1. i \in 1 .. n
            BY <2>1, <5>2
          <6> QED
            BY <2>6, <6>1 DEF CalcOne, Progress
        <5> QED
          BY <5>1, <5>2
      <4> QED
        BY <1>3, <2>6, <4>1, <4>2 DEF CalcOne, Progress
    <3>2. UpStream(c)'
      BY <1>3, <2>2, <2>5, <2>6, <2>9 DEF UpStream
    <3>3. DownStream(c)'
      <4> SUFFICES ASSUME asker[c].pc \in {"connect", "send", "read"}
                   PROVE  Flows(Downs(c), Len(asker[c].got), n + 1, asker[c].in, down)
        BY <1>3, <2>6, <2>9 DEF DownStream
      <4>1. /\ Downs(c) \in Seq(Seq(Wire)) /\ Len(Downs(c)) = Len(Asks[c])
            /\ Len(asker[c].got) \in 0 .. Len(Downs(c)) /\ n \in 0 .. Len(Downs(c)) - 1
        <5>1. Len(asker[c].got) <= n /\ n \in Nat /\ Len(asker[c].got) \in Nat /\ n + 1 <= Len(Asks[c]) /\ Len(Asks[c]) \in Nat
          BY <2>1, <2>2, CalcFacts DEF CalcOne, Progress
        <5> HIDE DEF n
        <5> QED
          BY <5>1, PacketsOf
      <4>2. Flows(Downs(c), Len(asker[c].got), n, asker[c].in, link[c].down)
        BY DEF CalcOne, DownStream
      <4>3. asker[c].in \in Seq(Wire) /\ link[c].down \in Seq(Wire)
        BY CalcFacts
      <4>4. down = link[c].down \o Downs(c)[n + 1]
        BY <2>7
      <4> HIDE DEF n
      <4>5. Flows(Downs(c), Len(asker[c].got), n + 1, asker[c].in, link[c].down \o Downs(c)[n + 1])
        BY <4>1, <4>2, <4>3, StreamAppend
      <4> QED
        BY <4>4, <4>5
    <3>4. Turns(c)'
      BY <1>3 DEF CalcOne, Turns
    <3>5. ReadsOn(c)'
      BY <2>5 DEF ReadsOn
    <3> QED
      BY <3>1, <3>2, <3>3, <3>4, <3>5 DEF CalcOne
  <2> QED
    BY <1>3, <2>5, <2>9, <2>10, <2>11, <2>12, OneMoves
<1> QED
  BY <1>5, <1>6

\* A child exits and leaves its conversation as it is.
LEMMA ChildExits ==
  ASSUME CalcInv, NEW c \in CalcClients, Calc!ChildExit(c)
  PROVE  CalcInv'
<1> CalcTypes /\ ForkedOnce /\ CalcOne(c)
  BY DEF CalcInv, CalcRest, CalcOne
<1>1. /\ child[c].pc = "read" /\ child' = [child EXCEPT ![c].pc = "exited"]
      /\ holders' = [d \in CalcClients |-> holders[d] \ {c}]
      /\ UNCHANGED <<parent, pending, link, asker>>
  BY DEF Calc!ChildExit
<1>2. child \in [CalcClients -> CalcChildren] /\ holders \in [CalcClients -> SUBSET (CalcClients \cup {"parent"})]
  BY DEF CalcTypes
<1>3. /\ child'[c].pc = "exited" /\ child'[c].in = child[c].in /\ child'[c].served = child[c].served
      /\ \A d \in CalcClients : d # c => child'[d] = child[d]
  BY <1>1, <1>2 DEF CalcChildren
<1>4. CalcTypes'
  <2>1. child' \in [CalcClients -> CalcChildren]
    <3>1. [child[c] EXCEPT !.pc = "exited"] \in CalcChildren
      <4>1. child[c] \in CalcChildren
        BY <1>2
      <4> QED
        BY <4>1 DEF CalcChildren
    <3> QED
      BY <1>1, <1>2, <3>1
  <2>2. holders' \in [CalcClients -> SUBSET (CalcClients \cup {"parent"})]
    BY <1>1, <1>2
  <2> QED
    BY <1>1, <2>1, <2>2 DEF CalcTypes
<1>5. ForkedOnce'
  <2>1. \A d \in CalcClients : child[d].pc = "none" => child'[d].pc = "none"
    BY <1>1, <1>3
  <2> QED
    BY <1>1, <2>1, ForkedStays
<1>6. CalcOne(c)'
  BY <1>1, <1>3 DEF CalcOne, Progress, UpStream, DownStream, Turns, ReadsOn
<1> QED
  BY <1>1, <1>3, <1>4, <1>5, <1>6, OneMoves

\* connect.
LEMMA AskerConnects ==
  ASSUME CalcInv, NEW c \in CalcClients, Calc!Connect(c)
  PROVE  CalcInv'
<1> CalcTypes /\ ForkedOnce /\ CalcOne(c)
  BY DEF CalcInv, CalcRest, CalcOne
<1>1. /\ asker[c].pc = "connect" /\ UNCHANGED <<parent, child, holders, link>>
      /\ \/ asker' = [asker EXCEPT ![c].pc = "done"] /\ UNCHANGED pending
         \/ asker' = [asker EXCEPT ![c].pc = "send"] /\ pending' = Append(pending, c)
  BY DEF Calc!Connect
<1>2. PICK pc \in {"done", "send"} : asker' = [asker EXCEPT ![c].pc = pc]
  BY <1>1
<1>3. asker \in [CalcClients -> CalcAskers] /\ pending \in Seq(CalcClients)
  BY DEF CalcTypes
<1>4. /\ asker' \in [CalcClients -> CalcAskers] /\ \A d \in CalcClients : d # c => asker'[d] = asker[d]
      /\ asker'[c].pc = pc /\ asker'[c].asked = asker[c].asked /\ asker'[c].got = asker[c].got
      /\ asker'[c].in = asker[c].in
  BY <1>2, <1>3 DEF CalcAskers
<1>5. pending' \in Seq(CalcClients)
  <2>1. Append(pending, c) \in Seq(CalcClients)
    BY <1>3, AppendProperties
  <2> QED
    BY <1>1, <1>3, <2>1
<1>6. CalcTypes'
  BY <1>1, <1>4, <1>5 DEF CalcTypes
<1>7. ForkedOnce'
  <2>1. CASE UNCHANGED pending
    <3>1. \A d \in CalcClients : asker'[d].pc = "connect" => asker[d].pc = "connect"
      BY <1>1, <1>4
    <3> QED
      BY <1>1, <2>1, <3>1, ForkedStays
  <2>2. CASE pending' = Append(pending, c)
    <3>1. /\ Len(pending') = Len(pending) + 1 /\ pending'[Len(pending) + 1] = c /\ Len(pending) \in Nat
          /\ \A i \in 1 .. Len(pending) : pending'[i] = pending[i] /\ pending[i] \in CalcClients
      BY <1>3, <2>2, AppendProperties
    <3>2. \A i : i \in 1 .. Len(pending') <=> i \in 1 .. Len(pending) \/ i = Len(pending) + 1
      BY <3>1
    <3>3. \A i \in 1 .. Len(pending) : pending[i] # c
      BY <1>1 DEF ForkedOnce
    <3>4. c \notin parent.conn /\ child[c].pc = "none"
      BY <1>1 DEF ForkedOnce
    <3>5. \A i, j \in 1 .. Len(pending') : pending'[i] = pending'[j] => i = j
      BY <3>1, <3>2, <3>3 DEF ForkedOnce
    <3>6. \A d \in CalcClients : asker'[d].pc = "connect" => asker[d].pc = "connect"
      BY <1>1, <1>4
    <3>7. \A i \in 1 .. Len(pending') : /\ asker'[pending'[i]].pc # "connect" /\ child[pending'[i]].pc = "none"
                                        /\ pending'[i] \notin parent.conn
      <4> SUFFICES ASSUME NEW i \in 1 .. Len(pending')
                   PROVE  /\ asker'[pending'[i]].pc # "connect" /\ child[pending'[i]].pc = "none"
                          /\ pending'[i] \notin parent.conn
        OBVIOUS
      <4>1. CASE i \in 1 .. Len(pending)
        BY <3>1, <3>6, <4>1 DEF ForkedOnce
      <4>2. CASE i = Len(pending) + 1
        <5>1. asker'[c].pc # "connect"
          BY <1>4
        <5> QED
          BY <3>1, <3>4, <4>2, <5>1
      <4> QED
        BY <3>2, <4>1, <4>2
    <3>8. \A d \in parent.conn : d \in CalcClients
      BY DEF CalcTypes
    <3>9. \A d \in parent.conn : asker'[d].pc # "connect" /\ (parent.pc = "fork" => child[d].pc = "none")
      BY <3>6, <3>8 DEF ForkedOnce
    <3>10. \A d \in CalcClients : asker'[d].pc = "connect" => child[d].pc = "none"
      BY <3>6 DEF ForkedOnce
    <3> QED
      BY <1>1, <3>5, <3>7, <3>9, <3>10 DEF ForkedOnce
  <2> QED
    BY <1>1, <2>1, <2>2
<1>8. CalcOne(c)'
  <2>1. Progress(c)' /\ UpStream(c)' /\ ReadsOn(c)'
    BY <1>1, <1>4 DEF CalcOne, Progress, UpStream, ReadsOn
  <2>2. DownStream(c)'
    BY <1>1, <1>4 DEF CalcOne, DownStream
  <2>3. Turns(c)'
    <3>1. asker[c].asked = 0 /\ Len(asker[c].got) = 0
      BY <1>1, CalcFacts DEF CalcOne, Turns, Progress
    <3> QED
      BY <1>4, <3>1 DEF CalcOne, Turns
  <2> QED
    BY <2>1, <2>2, <2>3 DEF CalcOne
<1> QED
  BY <1>1, <1>4, <1>6, <1>7, <1>8, OneMoves

\* A step of a client that is connected.
LEMMA AskerMoves ==
  ASSUME CalcInv, NEW c \in CalcClients, UNCHANGED <<parent, pending, child, holders>>,
         asker[c].pc # "connect", NEW a \in CalcAskers, NEW l \in CalcLinks, a.pc # "connect",
         asker' = [asker EXCEPT ![c] = a], link' = [link EXCEPT ![c] = l],
         CalcOne(c)'
  PROVE  CalcInv'
<1> CalcTypes /\ ForkedOnce
  BY DEF CalcInv
<1>1. /\ asker \in [CalcClients -> CalcAskers] /\ link \in [CalcClients -> CalcLinks]
  BY DEF CalcTypes
<1>2. /\ asker' \in [CalcClients -> CalcAskers] /\ link' \in [CalcClients -> CalcLinks] /\ asker'[c] = a
      /\ \A d \in CalcClients : d # c => asker'[d] = asker[d] /\ link'[d] = link[d]
  BY <1>1
<1>3. CalcTypes'
  BY <1>2 DEF CalcTypes
<1>4. ForkedOnce'
  <2>1. \A d \in CalcClients : asker'[d].pc = "connect" => asker[d].pc = "connect"
    BY <1>2
  <2> QED
    BY <2>1, ForkedStays
<1> QED
  BY <1>2, <1>3, <1>4, OneMoves

\* write of one question, or the shutdown after the last one.
LEMMA AskerSends ==
  ASSUME CalcInv, NEW c \in CalcClients, Calc!Send(c)
  PROVE  CalcInv'
<1> CalcTypes /\ CalcOne(c)
  BY DEF CalcInv, CalcRest, CalcOne
<1>1. asker[c].pc = "send" /\ UNCHANGED <<parent, pending, child, holders>>
  BY DEF Calc!Send
<1>2. /\ asker \in [CalcClients -> CalcAskers] /\ link \in [CalcClients -> CalcLinks]
      /\ asker[c] \in CalcAskers /\ link[c] \in CalcLinks
  BY DEF CalcTypes
<1>3. CASE asker[c].asked < Len(Asks[c])
  <2>1. PICK pc \in {"send", "read"} : pc = IF c \in Bursts THEN "send" ELSE "read"
    OBVIOUS
  <2>2. PICK m : m = asker[c].asked
    OBVIOUS
  <2>3. /\ m \in Nat /\ m + 1 \in Nat /\ m + 1 \in 1 .. Len(Ups(c)) /\ m \in 0 .. Len(Ups(c)) - 1 /\ m + 1 <= Len(Asks[c])
        /\ Ups(c) \in Seq(Seq(Wire)) /\ Ups(c)[m + 1] = Calc!Encode(Calc!SerializeRequest(Asks[c][m + 1]))
        /\ Ups(c)[m + 1] \in Seq(Wire) /\ Len(child[c].served) \in 0 .. Len(Ups(c)) /\ Len(child[c].served) <= m
    <3>1. /\ m \in Nat /\ m < Len(Asks[c]) /\ Len(Asks[c]) \in Nat /\ Len(Ups(c)) = Len(Asks[c]) /\ Ups(c) \in Seq(Seq(Wire))
          /\ Len(child[c].served) <= m /\ Len(child[c].served) \in Nat
      BY <1>3, <2>2, CalcFacts, QuestionsOf, PacketsOf DEF CalcOne, Progress
    <3>2. m + 1 \in 1 .. Len(Asks[c])
      BY <3>1
    <3>3. Ups(c)[m + 1] = Calc!Encode(Calc!SerializeRequest(Asks[c][m + 1]))
      BY <3>2 DEF Ups
    <3>4. Ups(c)[m + 1] \in Seq(Wire)
      BY <3>1, <3>2
    <3> QED
      BY <3>1, <3>2, <3>3, <3>4
  <2>4. PICK up \in Seq(Wire) : up = link[c].up \o Ups(c)[m + 1]
    BY <2>3, CalcFacts, ConcatProperties
  <2>5. PICK a : a = [asker[c] EXCEPT !.asked = m + 1, !.pc = pc]
    OBVIOUS
  <2>6. PICK l : l = [link[c] EXCEPT !.up = up]
    OBVIOUS
  <2>7. /\ a \in CalcAskers /\ a.pc = pc /\ a.asked = m + 1 /\ a.got = asker[c].got /\ a.in = asker[c].in
        /\ l \in CalcLinks /\ l.up = up /\ l.down = link[c].down
    BY <1>2, <2>3, <2>5, <2>6 DEF CalcAskers, CalcLinks
  <2>8. asker' = [asker EXCEPT ![c] = a] /\ link' = [link EXCEPT ![c] = l]
    <3>1. /\ asker' = [asker EXCEPT ![c].asked = m + 1, ![c].pc = pc]
          /\ link' = [link EXCEPT ![c].up = link[c].up \o Calc!Encode(Calc!SerializeRequest(Asks[c][m + 1]))]
      BY <1>3, <2>1, <2>2 DEF Calc!Send
    <3> QED
      BY <1>2, <2>3, <2>4, <2>5, <2>6, <3>1
  <2>9. asker'[c] = a /\ link'[c] = l
    BY <1>2, <2>8
  <2>10. CalcOne(c)'
    <3>1. Progress(c)'
      <4>1. asker'[c].asked = m + 1 /\ asker'[c].got = asker[c].got /\ child' = child
        BY <1>1, <2>7, <2>9
      <4>2. Len(child[c].served) <= m + 1 /\ m + 1 <= Len(Asks[c])
        BY <2>3, CalcFacts
      <4> QED
        BY <4>1, <4>2 DEF CalcOne, Progress
    <3>2. UpStream(c)'
      <4>1. Flows(Ups(c), Len(child[c].served), m, child[c].in, link[c].up)
        BY <2>2 DEF CalcOne, UpStream
      <4>2. child[c].in \in Seq(Wire) /\ link[c].up \in Seq(Wire)
        BY CalcFacts
      <4>3. Flows(Ups(c), Len(child[c].served), m + 1, child[c].in, link[c].up \o Ups(c)[m + 1])
        BY <2>3, <4>1, <4>2, StreamAppend
      <4> QED
        BY <1>1, <2>4, <2>7, <2>9, <4>3 DEF UpStream
    <3>3. DownStream(c)' /\ ReadsOn(c)'
      BY <1>1, <2>7, <2>9 DEF CalcOne, DownStream, ReadsOn
    <3>4. Turns(c)'
      <4>1. c \notin Bursts => pc = "read" /\ Len(asker[c].got) = m
        BY <1>1, <2>1, <2>2 DEF CalcOne, Turns
      <4>2. asker'[c].pc = pc /\ asker'[c].asked = m + 1 /\ asker'[c].got = asker[c].got /\ asker'[c].in = asker[c].in
        BY <2>7, <2>9
      <4> QED
        BY <1>1, <4>1, <4>2 DEF CalcOne, Turns
    <3> QED
      BY <3>1, <3>2, <3>3, <3>4 DEF CalcOne
  <2> QED
    BY <1>1, <2>7, <2>8, <2>10, AskerMoves
<1>4. CASE ~(asker[c].asked < Len(Asks[c]))
  <2>1. PICK pc \in {"read", "done"} : pc = IF c \in Bursts THEN "read" ELSE "done"
    OBVIOUS
  <2>2. PICK a : a = [asker[c] EXCEPT !.pc = pc]
    OBVIOUS
  <2>3. PICK l : l = [link[c] EXCEPT !.fin = TRUE]
    OBVIOUS
  <2>4. /\ a \in CalcAskers /\ a.pc = pc /\ a.asked = asker[c].asked /\ a.got = asker[c].got /\ a.in = asker[c].in
        /\ l \in CalcLinks /\ l.up = link[c].up /\ l.down = link[c].down
    BY <1>2, <2>2, <2>3 DEF CalcAskers, CalcLinks
  <2>5. asker' = [asker EXCEPT ![c] = a] /\ link' = [link EXCEPT ![c] = l]
    <3>1. asker' = [asker EXCEPT ![c].pc = pc] /\ link' = [link EXCEPT ![c].fin = TRUE]
      BY <1>4, <2>1 DEF Calc!Send
    <3> QED
      BY <1>2, <2>2, <2>3, <3>1
  <2>6. asker'[c] = a /\ link'[c] = l
    BY <1>2, <2>5
  <2>7. CalcOne(c)'
    <3>1. Progress(c)' /\ UpStream(c)' /\ DownStream(c)' /\ ReadsOn(c)'
      BY <1>1, <2>4, <2>6 DEF CalcOne, Progress, UpStream, DownStream, ReadsOn
    <3>2. Turns(c)'
      <4>1. c \notin Bursts => pc = "done"
        BY <2>1
      <4> QED
        BY <2>4, <2>6, <4>1 DEF CalcOne, Turns
    <3> QED
      BY <3>1, <3>2 DEF CalcOne
  <2> QED
    BY <1>1, <2>4, <2>5, <2>7, AskerMoves
<1> QED
  BY <1>3, <1>4

\* Nothing on the way.
LEMMA NoneSent == <<>> \in Seq(Wire)
  OBVIOUS

\* What a client takes out of the stream is its next answer.
LEMMA AnswerTaken ==
  ASSUME CalcTypes, NEW c \in CalcClients, CalcOne(c), NEW in \in Seq(Wire), NEW down \in Seq(Wire),
         Flows(Downs(c), Len(asker[c].got), Len(child[c].served), in, down),
         NEW d, d = Calc!Decode(in), d # Calc!Nothing, NEW v, v = Calc!Deserialize(d.content)
  PROVE  /\ v \in Answers /\ d.rest \in Seq(Wire)
         /\ Len(asker[c].got) < Len(child[c].served)
         /\ Flows(Downs(c), Len(asker[c].got) + 1, Len(child[c].served), d.rest, down)
         /\ Append(asker[c].got, v) \in Seq(Answers) /\ Len(Append(asker[c].got, v)) = Len(asker[c].got) + 1
         /\ \A i \in 1 .. Len(asker[c].got) + 1 :
              Append(asker[c].got, v)[i] = Calc!CalculatorHelper(Asks[c][i])
<1>n. PICK n \in Nat : n = Len(asker[c].got)
  BY CalcFacts
<1>m. PICK m \in Nat : m = Len(child[c].served)
  BY CalcFacts
<1>1. /\ Downs(c) \in Seq(Seq(Wire)) /\ Len(Downs(c)) = Len(Asks[c]) /\ Framed(Downs(c)) /\ Len(Asks[c]) \in Nat
  BY PacketsOf, QuestionsOf
<1>2. n <= m /\ m <= asker[c].asked /\ asker[c].asked <= Len(Asks[c]) /\ asker[c].asked \in Nat
  BY <1>n, <1>m, CalcFacts DEF CalcOne, Progress
<1>3. n \in 0 .. Len(Downs(c)) /\ m \in n .. Len(Downs(c))
  BY <1>1, <1>2
<1>4. /\ n < m /\ n + 1 \in 1 .. Len(Downs(c)) /\ d.content = SubSeq(Downs(c)[n + 1], 2, Len(Downs(c)[n + 1]))
      /\ d.rest \in Seq(Wire) /\ Flows(Downs(c), n + 1, m, d.rest, down)
  <2>1. Flows(Downs(c), n, m, in, down)
    BY <1>n, <1>m
  <2>2. PICK p \in Seq(Seq(Wire)) : p = Downs(c)
    BY <1>1
  <2>3. Framed(p) /\ n \in 0 .. Len(p) /\ m \in n .. Len(p) /\ Flows(p, n, m, in, down)
    BY <1>1, <1>3, <2>1, <2>2
  <2>4. /\ n < m /\ n + 1 \in 1 .. Len(p) /\ d.content = SubSeq(p[n + 1], 2, Len(p[n + 1]))
        /\ d.rest \in Seq(Wire) /\ Flows(p, n + 1, m, d.rest, down)
    BY <2>3, DecodeFirst
  <2> QED
    BY <2>2, <2>4
<1>5. v = Calc!CalculatorHelper(Asks[c][n + 1]) /\ v \in Answers
  <2>1. Calc!Deserialize(d.content) = Calc!CalculatorHelper(Asks[c][n + 1]) /\ Asks[c][n + 1] \in Questions
    BY <1>1, <1>4, PacketsOf, QuestionsOf
  <2> QED
    BY <2>1, HelperIsCorrect
<1>6. /\ Append(asker[c].got, v) \in Seq(Answers) /\ Len(Append(asker[c].got, v)) = n + 1
      /\ Append(asker[c].got, v)[n + 1] = v /\ \A i \in 1 .. n : Append(asker[c].got, v)[i] = asker[c].got[i]
  BY <1>n, <1>5, CalcFacts, AppendProperties
<1>7. ASSUME NEW i \in 1 .. n + 1
      PROVE  Append(asker[c].got, v)[i] = Calc!CalculatorHelper(Asks[c][i])
  <2>1. CASE i = n + 1
    BY <1>5, <1>6, <2>1
  <2>2. CASE i # n + 1
    <3>1. i \in 1 .. n
      BY <2>2
    <3> QED
      BY <1>n, <1>6, <3>1 DEF CalcOne, Progress
  <2> QED
    BY <2>1, <2>2
<1> QED
  BY <1>n, <1>m, <1>4, <1>5, <1>6, <1>7

\* One read that holds the next answer, or the assertion that ends the client.
LEMMA AskerReceives ==
  ASSUME CalcInv, NEW c \in CalcClients, Calc!Receive(c)
  PROVE  CalcInv'
<1> CalcTypes /\ CalcOne(c)
  BY DEF CalcInv, CalcRest, CalcOne
<1>1. asker[c].pc = "read" /\ c \notin Bursts /\ UNCHANGED <<parent, pending, child, holders>>
  BY DEF Calc!Receive
<1>2. /\ asker \in [CalcClients -> CalcAskers] /\ link \in [CalcClients -> CalcLinks]
      /\ asker[c] \in CalcAskers /\ link[c] \in CalcLinks
  BY DEF CalcTypes
<1>3. PICK k \in 1 .. Len(link[c].down) :
        LET d == Calc!Decode(asker[c].in \o SubSeq(link[c].down, 1, k))
        IN IF d = Calc!Nothing
           THEN /\ asker' = [asker EXCEPT ![c].pc = "aborted"]
                /\ link' = [link EXCEPT ![c].down = <<>>, ![c].fin = TRUE]
           ELSE /\ asker' = [asker EXCEPT ![c].pc = "send", ![c].in = d.rest,
                                          ![c].got = Append(@, Calc!Deserialize(d.content))]
                /\ link' = [link EXCEPT ![c].down = SubSeq(@, k + 1, Len(@))]
  BY DEF Calc!Receive
<1>4. PICK d : d = Calc!Decode(asker[c].in \o SubSeq(link[c].down, 1, k))
  OBVIOUS
<1>5. CASE d = Calc!Nothing
  <2>1. PICK none \in Seq(Wire) : none = <<>>
    BY NoneSent
  <2>2. PICK a : a = [asker[c] EXCEPT !.pc = "aborted"]
    OBVIOUS
  <2>3. PICK l : l = [link[c] EXCEPT !.down = none, !.fin = TRUE]
    OBVIOUS
  <2>4. /\ a \in CalcAskers /\ a.pc = "aborted" /\ a.asked = asker[c].asked /\ a.got = asker[c].got /\ a.in = asker[c].in
        /\ l \in CalcLinks /\ l.up = link[c].up
    BY <1>2, <2>1, <2>2, <2>3 DEF CalcAskers, CalcLinks
  <2>5. asker' = [asker EXCEPT ![c] = a] /\ link' = [link EXCEPT ![c] = l]
    <3>1. asker' = [asker EXCEPT ![c].pc = "aborted"] /\ link' = [link EXCEPT ![c].down = none, ![c].fin = TRUE]
      BY <1>3, <1>4, <1>5, <2>1
    <3> QED
      BY <1>2, <2>2, <2>3, <3>1
  <2>6. asker'[c] = a /\ link'[c] = l
    BY <1>2, <2>5
  <2>7. CalcOne(c)'
    BY <1>1, <2>4, <2>6 DEF CalcOne, Progress, UpStream, DownStream, Turns, ReadsOn
  <2> QED
    BY <1>1, <2>4, <2>5, <2>7, AskerMoves
<1>6. CASE d # Calc!Nothing
  <2>1. /\ SubSeq(link[c].down, k + 1, Len(link[c].down)) \in Seq(Wire)
        /\ asker[c].in \o SubSeq(link[c].down, 1, k) \in Seq(Wire)
        /\ (asker[c].in \o SubSeq(link[c].down, 1, k)) \o SubSeq(link[c].down, k + 1, Len(link[c].down))
             = asker[c].in \o link[c].down
    BY CalcFacts, ReadMoves
  <2>2. PICK in \in Seq(Wire) : in = asker[c].in \o SubSeq(link[c].down, 1, k)
    BY <2>1
  <2>3. PICK down \in Seq(Wire) : down = SubSeq(link[c].down, k + 1, Len(link[c].down))
    BY <2>1
  <2>4. Flows(Downs(c), Len(asker[c].got), Len(child[c].served), in, down)
    <3>1. Flows(Downs(c), Len(asker[c].got), Len(child[c].served), asker[c].in, link[c].down)
      BY <1>1 DEF CalcOne, DownStream
    <3>2. in \o down = asker[c].in \o link[c].down
      BY <2>1, <2>2, <2>3
    <3> QED
      BY <3>1, <3>2 DEF Flows
  <2>5. PICK v : v = Calc!Deserialize(d.content)
    OBVIOUS
  <2>6. PICK got : got = Append(asker[c].got, v)
    OBVIOUS
  <2>7. /\ d.rest \in Seq(Wire) /\ Len(asker[c].got) < Len(child[c].served)
        /\ Flows(Downs(c), Len(asker[c].got) + 1, Len(child[c].served), d.rest, down)
        /\ got \in Seq(Answers) /\ Len(got) = Len(asker[c].got) + 1
        /\ \A i \in 1 .. Len(asker[c].got) + 1 : got[i] = Calc!CalculatorHelper(Asks[c][i])
    <3>1. d = Calc!Decode(in)
      BY <1>4, <2>2
    <3> QED
      BY <1>6, <2>4, <2>5, <2>6, <3>1, AnswerTaken
  <2>8. PICK a : a = [asker[c] EXCEPT !.pc = "send", !.in = d.rest, !.got = got]
    OBVIOUS
  <2>9. PICK l : l = [link[c] EXCEPT !.down = down]
    OBVIOUS
  <2>10. /\ a \in CalcAskers /\ a.pc = "send" /\ a.asked = asker[c].asked /\ a.got = got /\ a.in = d.rest
         /\ l \in CalcLinks /\ l.up = link[c].up /\ l.down = down
    BY <1>2, <2>7, <2>8, <2>9 DEF CalcAskers, CalcLinks
  <2>11. asker' = [asker EXCEPT ![c] = a] /\ link' = [link EXCEPT ![c] = l]
    <3>1. /\ asker' = [asker EXCEPT ![c].pc = "send", ![c].in = d.rest, ![c].got = got]
          /\ link' = [link EXCEPT ![c].down = down]
      BY <1>2, <1>3, <1>4, <1>6, <2>3, <2>5, <2>6
    <3> QED
      BY <1>2, <2>8, <2>9, <3>1
  <2>12. asker'[c] = a /\ link'[c] = l
    BY <1>2, <2>11
  <2>13. CalcOne(c)'
    <3>1. Progress(c)'
      <4>1. Len(got) <= Len(child[c].served)
        BY <2>7, CalcFacts
      <4> QED
        BY <1>1, <2>7, <2>10, <2>12, <4>1 DEF CalcOne, Progress
    <3>2. UpStream(c)' /\ ReadsOn(c)'
      BY <1>1, <2>10, <2>12 DEF CalcOne, UpStream, ReadsOn
    <3>3. DownStream(c)'
      BY <1>1, <2>7, <2>10, <2>12 DEF DownStream
    <3>4. Turns(c)'
      <4>1. asker[c].asked = Len(asker[c].got) + 1
        BY <1>1 DEF CalcOne, Turns
      <4> QED
        BY <1>1, <2>7, <2>10, <2>12, <4>1 DEF Turns
    <3> QED
      BY <3>1, <3>2, <3>3, <3>4 DEF CalcOne
  <2> QED
    BY <1>1, <2>10, <2>11, <2>13, AskerMoves
<1> QED
  BY <1>5, <1>6

\* A client that bursts takes its next answer.
LEMMA AskerReceivesBurst ==
  ASSUME CalcInv, NEW c \in CalcClients, Calc!ReceiveBurst(c)
  PROVE  CalcInv'
<1> CalcTypes /\ CalcOne(c)
  BY DEF CalcInv, CalcRest, CalcOne
<1>1. PICK d : d = Calc!Decode(link[c].down)
  OBVIOUS
<1>2. PICK v : v = Calc!Deserialize(d.content)
  OBVIOUS
<1>3. PICK got : got = Append(asker[c].got, v)
  OBVIOUS
<1>4. /\ asker[c].pc = "read" /\ c \in Bursts /\ UNCHANGED <<parent, pending, child, holders>>
      /\ d # Calc!Nothing /\ asker' = [asker EXCEPT ![c].got = got] /\ link' = [link EXCEPT ![c].down = d.rest]
  <2>1. asker \in [CalcClients -> CalcAskers]
    BY DEF CalcTypes
  <2> QED
    BY <1>1, <1>2, <1>3, <2>1 DEF Calc!ReceiveBurst
<1>5. /\ asker \in [CalcClients -> CalcAskers] /\ link \in [CalcClients -> CalcLinks]
      /\ asker[c] \in CalcAskers /\ link[c] \in CalcLinks
  BY DEF CalcTypes
<1>6. PICK none \in Seq(Wire) : none = <<>>
  BY NoneSent
<1>7. asker[c].in = none
  BY <1>4, <1>6 DEF CalcOne, Turns
<1>8. Flows(Downs(c), Len(asker[c].got), Len(child[c].served), link[c].down, none)
  <2>1. Flows(Downs(c), Len(asker[c].got), Len(child[c].served), none, link[c].down)
    BY <1>4, <1>7 DEF CalcOne, DownStream
  <2>2. link[c].down \o none = none \o link[c].down
    BY <1>6, CalcFacts, ConcatEmptySeq
  <2> QED
    BY <2>1, <2>2 DEF Flows
<1>9. /\ d.rest \in Seq(Wire) /\ Len(asker[c].got) < Len(child[c].served)
      /\ Flows(Downs(c), Len(asker[c].got) + 1, Len(child[c].served), d.rest, none)
      /\ got \in Seq(Answers) /\ Len(got) = Len(asker[c].got) + 1
      /\ \A i \in 1 .. Len(asker[c].got) + 1 : got[i] = Calc!CalculatorHelper(Asks[c][i])
  BY <1>1, <1>2, <1>3, <1>4, <1>8, CalcFacts, AnswerTaken
<1>10. Flows(Downs(c), Len(asker[c].got) + 1, Len(child[c].served), none, d.rest)
  <2>1. d.rest \o none = none \o d.rest
    BY <1>6, <1>9, ConcatEmptySeq
  <2> QED
    BY <1>9, <2>1 DEF Flows
<1>11. PICK a : a = [asker[c] EXCEPT !.got = got]
  OBVIOUS
<1>12. PICK l : l = [link[c] EXCEPT !.down = d.rest]
  OBVIOUS
<1>13. /\ a \in CalcAskers /\ a.pc = "read" /\ a.asked = asker[c].asked /\ a.got = got /\ a.in = none
       /\ l \in CalcLinks /\ l.up = link[c].up /\ l.down = d.rest
  BY <1>4, <1>5, <1>7, <1>9, <1>11, <1>12 DEF CalcAskers, CalcLinks
<1>14. asker' = [asker EXCEPT ![c] = a] /\ link' = [link EXCEPT ![c] = l]
  BY <1>4, <1>5, <1>11, <1>12
<1>15. asker'[c] = a /\ link'[c] = l
  BY <1>5, <1>14
<1>16. CalcOne(c)'
  <2>1. Progress(c)'
    <3>1. Len(got) <= Len(child[c].served)
      BY <1>9, CalcFacts
    <3> QED
      BY <1>4, <1>9, <1>13, <1>15, <3>1 DEF CalcOne, Progress
  <2>2. UpStream(c)' /\ ReadsOn(c)'
    BY <1>4, <1>13, <1>15 DEF CalcOne, UpStream, ReadsOn
  <2>3. DownStream(c)'
    BY <1>4, <1>9, <1>10, <1>13, <1>15 DEF DownStream
  <2>4. Turns(c)'
    BY <1>4, <1>6, <1>13, <1>15 DEF CalcOne, Turns
  <2> QED
    BY <2>1, <2>2, <2>3, <2>4 DEF CalcOne
<1> QED
  BY <1>4, <1>13, <1>14, <1>16, AskerMoves

\* read returns 0.
LEMMA AskerSeesEnd ==
  ASSUME CalcInv, NEW c \in CalcClients, Calc!ReceiveEnd(c)
  PROVE  CalcInv'
<1> CalcTypes /\ CalcOne(c)
  BY DEF CalcInv, CalcRest, CalcOne
<1>1. /\ asker[c].pc = "read" /\ UNCHANGED <<parent, pending, child, holders>>
      /\ asker' = [asker EXCEPT ![c].pc = "done"] /\ link' = [link EXCEPT ![c].fin = TRUE]
  BY DEF Calc!ReceiveEnd
<1>2. /\ asker \in [CalcClients -> CalcAskers] /\ link \in [CalcClients -> CalcLinks]
      /\ asker[c] \in CalcAskers /\ link[c] \in CalcLinks
  BY DEF CalcTypes
<1>3. PICK a : a = [asker[c] EXCEPT !.pc = "done"]
  OBVIOUS
<1>4. PICK l : l = [link[c] EXCEPT !.fin = TRUE]
  OBVIOUS
<1>5. /\ a \in CalcAskers /\ a.pc = "done" /\ a.asked = asker[c].asked /\ a.got = asker[c].got /\ a.in = asker[c].in
      /\ l \in CalcLinks /\ l.up = link[c].up
  BY <1>2, <1>3, <1>4 DEF CalcAskers, CalcLinks
<1>6. asker' = [asker EXCEPT ![c] = a] /\ link' = [link EXCEPT ![c] = l]
  BY <1>1, <1>2, <1>3, <1>4
<1>7. asker'[c] = a /\ link'[c] = l
  BY <1>2, <1>6
<1>8. CalcOne(c)'
  BY <1>1, <1>5, <1>7 DEF CalcOne, Progress, UpStream, DownStream, Turns, ReadsOn
<1> QED
  BY <1>1, <1>5, <1>6, <1>8, AskerMoves

\* A step of the server process that is about no conversation.
LEMMA NoneMoves ==
  ASSUME CalcInv, CalcTypes', ForkedOnce', UNCHANGED <<child, link, asker>>
  PROVE  CalcInv'
<1>1. ASSUME NEW d \in CalcClients PROVE CalcOne(d)'
  <2>1. CalcOne(d)
    BY DEF CalcInv, CalcRest, CalcOne
  <2> QED
    BY <2>1, OthersStay
<1>2. CalcRest'
  BY <1>1 DEF CalcRest, CalcOne
<1> QED
  BY <1>2 DEF CalcInv

\* fork, for a client that has no child yet.
LEMMA ParentForks ==
  ASSUME CalcInv, Calc!Fork
  PROVE  CalcInv'
<1> CalcTypes /\ ForkedOnce
  BY DEF CalcInv
<1>1. parent.pc = "fork" /\ parent' = [parent EXCEPT !.pc = "close"] /\ UNCHANGED <<pending, link, asker>>
  BY DEF Calc!Fork
<1>2. PICK c \in parent.conn :
        \/ /\ child' = [child EXCEPT ![c].pc = "read"]
           /\ holders' = [d \in CalcClients |-> IF "parent" \in holders[d]
                                                THEN holders[d] \cup {c} ELSE holders[d]]
        \/ child' = [child EXCEPT ![c].pc = "refused"] /\ UNCHANGED holders
  BY DEF Calc!Fork
<1>3. PICK pc \in {"read", "refused"} : child' = [child EXCEPT ![c].pc = pc]
  BY <1>2
<1>4. /\ child \in [CalcClients -> CalcChildren] /\ holders \in [CalcClients -> SUBSET (CalcClients \cup {"parent"})]
      /\ parent \in [pc : {"init", "accept", "fork", "close", "exited"}, conn : SUBSET CalcClients]
      /\ c \in CalcClients
  BY DEF CalcTypes
<1>5. child[c].pc = "none" /\ asker[c].pc # "connect"
  BY <1>1 DEF ForkedOnce
<1>6. /\ child'[c].pc = pc /\ child'[c].in = child[c].in /\ child'[c].served = child[c].served
      /\ child' \in [CalcClients -> CalcChildren] /\ \A d \in CalcClients : d # c => child'[d] = child[d]
  <2>1. PICK u : u = [child[c] EXCEPT !.pc = pc]
    OBVIOUS
  <2>2. u.pc = pc /\ u.in = child[c].in /\ u.served = child[c].served /\ u \in CalcChildren
    <3>1. child[c] \in CalcChildren
      BY <1>4
    <3> QED
      BY <2>1, <3>1 DEF CalcChildren
  <2>3. child' = [child EXCEPT ![c] = u]
    BY <1>3, <1>4, <2>1
  <2> QED
    BY <1>4, <2>2, <2>3
<1>7. parent'.pc = "close" /\ parent'.conn = parent.conn
      /\ parent' \in [pc : {"init", "accept", "fork", "close", "exited"}, conn : SUBSET CalcClients]
  BY <1>1, <1>4
<1>8. CalcTypes'
  <2>1. holders' \in [CalcClients -> SUBSET (CalcClients \cup {"parent"})]
    BY <1>2, <1>4
  <2> QED
    BY <1>1, <1>6, <1>7, <2>1 DEF CalcTypes
<1>9. ForkedOnce'
  <2>1. \A i \in 1 .. Len(pending) : pending[i] \in CalcClients /\ pending[i] # c
    <3>1. \A i \in 1 .. Len(pending) : pending[i] \in CalcClients
      BY DEF CalcTypes
    <3> QED
      BY <1>2, <3>1 DEF ForkedOnce
  <2>2. \A i \in 1 .. Len(pending) : /\ asker[pending[i]].pc # "connect" /\ child'[pending[i]].pc = "none"
                                     /\ pending[i] \notin parent.conn
    BY <1>6, <2>1 DEF ForkedOnce
  <2>3. \A d \in CalcClients : asker[d].pc = "connect" => child'[d].pc = "none"
    BY <1>5, <1>6 DEF ForkedOnce
  <2> QED
    BY <1>1, <1>7, <2>2, <2>3 DEF ForkedOnce
<1>10. CalcOne(c)'
  <2>1. CalcOne(c)
    BY <1>4 DEF CalcInv, CalcRest, CalcOne
  <2>2. Progress(c)' /\ UpStream(c)' /\ DownStream(c)' /\ Turns(c)'
    BY <1>1, <1>6, <2>1 DEF CalcOne, Progress, UpStream, DownStream, Turns
  <2>3. ReadsOn(c)'
    BY <1>5, <1>6, <2>1 DEF CalcOne, ReadsOn
  <2> QED
    BY <2>2, <2>3 DEF CalcOne
<1> QED
  BY <1>1, <1>4, <1>6, <1>8, <1>9, <1>10, OneMoves

\* The other steps of the parent.
LEMMA ParentMoves ==
  ASSUME CalcInv, Calc!Start \/ Calc!Accept \/ Calc!CloseConn
  PROVE  CalcInv'
<1> CalcTypes /\ ForkedOnce
  BY DEF CalcInv
<1> DEFINE Parents == [pc : {"init", "accept", "fork", "close", "exited"}, conn : SUBSET CalcClients]
<1>1. /\ parent \in Parents /\ pending \in Seq(CalcClients)
      /\ holders \in [CalcClients -> SUBSET (CalcClients \cup {"parent"})]
  BY DEF CalcTypes
<1>2. UNCHANGED <<child, link, asker>>
  BY DEF Calc!Start, Calc!Accept, Calc!CloseConn
<1>3. CASE Calc!Start
  <2>1. PICK pc \in {"accept", "exited"} : parent' = [parent EXCEPT !.pc = pc] /\ UNCHANGED <<pending, holders>>
    BY <1>3 DEF Calc!Start
  <2>2. parent' \in Parents /\ parent'.pc = pc /\ parent'.conn = parent.conn
    BY <1>1, <2>1
  <2>3. CalcTypes'
    BY <1>2, <2>1, <2>2 DEF CalcTypes
  <2>4. ForkedOnce'
    BY <1>2, <2>1, <2>2 DEF ForkedOnce
  <2> QED
    BY <1>2, <2>3, <2>4, NoneMoves
<1>4. CASE Calc!Accept
  <2>1. PICK h : h = Head(pending)
    OBVIOUS
  <2>2. /\ pending # <<>> /\ parent' = [pc |-> "fork", conn |-> {h}]
        /\ holders' = [holders EXCEPT ![h] = {"parent"}] /\ pending' = Tail(pending)
    BY <1>4, <2>1 DEF Calc!Accept
  <2>3. /\ h = pending[1] /\ h \in CalcClients /\ Len(pending) \in Nat \ {0} /\ 1 \in 1 .. Len(pending)
        /\ pending' \in Seq(CalcClients) /\ Len(pending') = Len(pending) - 1
        /\ \A i \in 1 .. Len(pending') : i + 1 \in 1 .. Len(pending) /\ i + 1 # 1 /\ pending'[i] = pending[i + 1]
    <3>1. Len(pending) \in Nat \ {0}
      BY <1>1, <2>2, EmptySeq
    <3>2. h = pending[1] /\ h \in CalcClients /\ 1 \in 1 .. Len(pending)
      BY <1>1, <2>1, <2>2, <3>1, HeadTailProperties
    <3>3. pending' \in Seq(CalcClients) /\ Len(pending') = Len(pending) - 1
      BY <1>1, <2>2, HeadTailProperties
    <3>4. \A i \in 1 .. Len(pending') : pending'[i] = pending[i + 1]
      BY <1>1, <2>2, HeadTailProperties
    <3> QED
      BY <3>1, <3>2, <3>3, <3>4
  <2>4. CalcTypes'
    <3>1. parent' \in Parents
      BY <2>2, <2>3
    <3>2. holders' \in [CalcClients -> SUBSET (CalcClients \cup {"parent"})]
      BY <1>1, <2>2, <2>3
    <3> QED
      BY <1>2, <2>3, <3>1, <3>2 DEF CalcTypes
  <2>5. ForkedOnce'
    <3>1. \A i, j \in 1 .. Len(pending') : pending'[i] = pending'[j] => i = j
      <4> SUFFICES ASSUME NEW i \in 1 .. Len(pending'), NEW j \in 1 .. Len(pending'), pending'[i] = pending'[j]
                   PROVE  i = j
        OBVIOUS
      <4>1. i + 1 = j + 1
        BY <2>3 DEF ForkedOnce
      <4> QED
        BY <2>3, <4>1
    <3>2. \A i \in 1 .. Len(pending') : pending'[i] # h
      BY <2>3 DEF ForkedOnce
    <3>3. \A i \in 1 .. Len(pending') : asker[pending'[i]].pc # "connect" /\ child[pending'[i]].pc = "none"
      BY <2>3 DEF ForkedOnce
    <3>4. asker[h].pc # "connect" /\ child[h].pc = "none"
      BY <2>3 DEF ForkedOnce
    <3>5. parent'.conn = {h} /\ parent'.pc = "fork"
      BY <2>2
    <3> QED
      BY <1>2, <3>1, <3>2, <3>3, <3>4, <3>5 DEF ForkedOnce
  <2> QED
    BY <1>2, <2>4, <2>5, NoneMoves
<1>5. CASE Calc!CloseConn
  <2>1. /\ parent' = [pc |-> "accept", conn |-> {}] /\ UNCHANGED pending
        /\ holders' = [c \in CalcClients |-> IF c \in parent.conn THEN holders[c] \ {"parent"} ELSE holders[c]]
    BY <1>5 DEF Calc!CloseConn
  <2>2. parent' \in Parents /\ parent'.conn = {} /\ parent'.pc = "accept"
    BY <2>1
  <2>3. CalcTypes'
    <3>1. holders' \in [CalcClients -> SUBSET (CalcClients \cup {"parent"})]
      BY <1>1, <2>1
    <3> QED
      BY <1>2, <2>1, <2>2, <3>1 DEF CalcTypes
  <2>4. ForkedOnce'
    BY <1>2, <2>1, <2>2 DEF ForkedOnce
  <2> QED
    BY <1>2, <2>3, <2>4, NoneMoves
<1> QED
  BY <1>3, <1>4, <1>5

\* The invariant is inductive.
LEMMA CalcStep == CalcInv /\ [Calc!Next]_calcVars => CalcInv'
<1> SUFFICES ASSUME CalcInv, [Calc!Next]_calcVars PROVE CalcInv'
  OBVIOUS
<1>1. CASE UNCHANGED calcVars
  BY <1>1 DEF calcVars, CalcInv, CalcTypes, ForkedOnce, CalcRest, Progress, UpStream, DownStream, Turns, ReadsOn
<1>2. CASE Calc!Parent
  BY <1>2, ParentForks, ParentMoves DEF Calc!Parent
<1>3. ASSUME NEW c \in CalcClients, Calc!Child(c) PROVE CalcInv'
  BY <1>3, ChildReads, ChildDecodes, ChildExits DEF Calc!Child
<1>4. ASSUME NEW c \in CalcClients, Calc!Client(c) PROVE CalcInv'
  BY <1>4, AskerConnects, AskerSends, AskerReceives, AskerReceivesBurst, AskerSeesEnd DEF Calc!Client
<1> QED
  BY <1>1, <1>2, <1>3, <1>4 DEF Calc!Next

-----------------------------------------------------------------------------
(***************************************************************************)
(* What the calculator promises.                                           *)
(***************************************************************************)
LEMMA CalcTypeOK == CalcInv => Calc!TypeOK
<1> SUFFICES ASSUME CalcInv PROVE Calc!TypeOK
  OBVIOUS
<1>1. CalcTypes /\ \A c \in CalcClients : Progress(c)
  BY DEF CalcInv, CalcRest
<1>2. ASSUME NEW c \in CalcClients
      PROVE  /\ child[c].pc \in {"none", "refused", "read", "decode", "exited"}
             /\ holders[c] \subseteq CalcClients \cup {"parent"}
             /\ asker[c].pc \in {"connect", "send", "read", "done", "aborted"}
             /\ asker[c].asked \in 0 .. Len(Asks[c])
  <2>1. holders[c] \subseteq CalcClients \cup {"parent"} /\ child[c] \in CalcChildren /\ asker[c] \in CalcAskers
    BY <1>1 DEF CalcTypes
  <2>2. asker[c].asked \in 0 .. Len(Asks[c])
    BY <1>1, CalcFacts, QuestionsOf DEF Progress
  <2> QED
    BY <2>1, <2>2 DEF CalcChildren, CalcAskers
<1>3. /\ parent \in [pc : {"init", "accept", "fork", "close", "exited"}, conn : SUBSET CalcClients]
      /\ pending \in Seq(CalcClients)
  BY <1>1 DEF CalcTypes
<1> QED
  BY <1>2, <1>3 DEF Calc!TypeOK

\* What was got is what the switch computes, which is correct.
LEMMA CalcAnswers == CalcInv => Calc!AnswersMatchQuestions
<1> SUFFICES ASSUME CalcInv, NEW c \in CalcClients
             PROVE  /\ \A i \in 1 .. Len(asker[c].got) : Calc!Correct(Asks[c][i], asker[c].got[i])
                    /\ c \notin Bursts /\ asker[c].pc = "send" =>
                         /\ Len(asker[c].got) = asker[c].asked
                         /\ asker[c].in = <<>> /\ link[c].down = <<>>
  BY DEF Calc!AnswersMatchQuestions
<1>1. CalcTypes /\ CalcOne(c)
  BY DEF CalcInv, CalcRest, CalcOne
<1>2. ASSUME NEW i \in 1 .. Len(asker[c].got) PROVE Calc!Correct(Asks[c][i], asker[c].got[i])
  <2>1. i \in 1 .. Len(Asks[c])
    BY <1>1, CalcFacts, QuestionsOf DEF CalcOne, Progress
  <2>2. Asks[c][i] \in Questions
    BY <2>1, QuestionsOf
  <2>3. asker[c].got[i] = Calc!CalculatorHelper(Asks[c][i])
    BY <1>1 DEF CalcOne, Progress
  <2>4. Calc!Correct(Asks[c][i], Calc!CalculatorHelper(Asks[c][i]))
    BY <2>2, HelperIsCorrect
  <2> QED
    BY <2>3, <2>4
<1>3. ASSUME c \notin Bursts, asker[c].pc = "send"
      PROVE  Len(asker[c].got) = asker[c].asked /\ asker[c].in = <<>> /\ link[c].down = <<>>
  <2>1. Len(asker[c].got) = asker[c].asked
    BY <1>1, <1>3 DEF CalcOne, Turns
  <2>2. PICK n \in Nat : n = Len(asker[c].got)
    BY <1>1, CalcFacts
  <2>3. Len(child[c].served) = n /\ n <= Len(Asks[c]) /\ Len(Asks[c]) \in Nat
    BY <1>1, <2>1, <2>2, CalcFacts, QuestionsOf DEF CalcOne, Progress
  <2>4. PICK p \in Seq(Seq(Wire)) : p = Downs(c)
    BY PacketsOf
  <2>5. Framed(p) /\ n \in 0 .. Len(p) /\ n \in n .. Len(p)
    BY <2>3, <2>4, PacketsOf
  <2>6. Flows(p, n, n, asker[c].in, link[c].down)
    BY <1>1, <1>3, <2>2, <2>3, <2>4 DEF CalcOne, DownStream
  <2>7. asker[c].in \in Seq(Wire) /\ link[c].down \in Seq(Wire)
    BY <1>1, CalcFacts
  <2>8. asker[c].in = <<>> /\ link[c].down = <<>>
    <3>1. PICK in \in Seq(Wire), down \in Seq(Wire) : in = asker[c].in /\ down = link[c].down
      BY <2>7
    <3>2. PICK m \in n .. Len(p) : m = n
      BY <2>5
    <3>3. Flows(p, n, m, in, down)
      BY <2>6, <3>1, <3>2
    <3>4. in = <<>> /\ down = <<>>
      BY <2>5, <3>2, <3>3, NothingFlows
    <3> QED
      BY <3>1, <3>4
  <2> QED
    BY <2>1, <2>8
<1> QED
  BY <1>2, <1>3

\* The conversations as RequestReply sees them.
AskedSoFar == [c \in CalcClients |-> SubSeq(Asks[c], 1, asker[c].asked)]
RepliedSoFar == [c \in CalcClients |-> child[c].served]
OverSoFar == [c \in CalcClients |-> child[c].pc \in {"refused", "exited"}]

\* Nothing is asked, replied or over in the initial states.
LEMMA RefinesInit == Calc!Init => Calc!Abstract!Init
<1> SUFFICES ASSUME Calc!Init PROVE Calc!Abstract!Init
  OBVIOUS
<1>1. ASSUME NEW c \in CalcClients
      PROVE  asker[c].asked = 0 /\ child[c].served = <<>> /\ child[c].pc = "none" /\ SubSeq(Asks[c], 1, 0) = <<>>
  <2>1. SubSeq(Asks[c], 1, 0) = <<>>
    BY QuestionsOf, SubSeqEmpty
  <2> QED
    BY <2>1 DEF Calc!Init
<1>2. /\ AskedSoFar = [c \in CalcClients |-> <<>>] /\ RepliedSoFar = [c \in CalcClients |-> <<>>]
      /\ OverSoFar = [c \in CalcClients |-> FALSE]
  <2>1. AskedSoFar = [c \in CalcClients |-> <<>>]
    BY <1>1 DEF AskedSoFar
  <2>2. RepliedSoFar = [c \in CalcClients |-> <<>>]
    BY <1>1 DEF RepliedSoFar
  <2>3. OverSoFar = [c \in CalcClients |-> FALSE]
    <3>1. \A c \in CalcClients : (child[c].pc \in {"refused", "exited"}) = FALSE
      BY <1>1
    <3> QED
      BY <3>1 DEF OverSoFar
  <2> QED
    BY <2>1, <2>2, <2>3
<1> QED
  BY <1>2 DEF Calc!Abstract!Init, AskedSoFar, RepliedSoFar, OverSoFar

\* What the abstract service does not see is no step of it.
LEMMA RefinesStutter ==
  ASSUME UNCHANGED <<AskedSoFar, RepliedSoFar, OverSoFar>>
  PROVE  UNCHANGED Calc!Abstract!vars
  BY DEF Calc!Abstract!vars, AskedSoFar, RepliedSoFar, OverSoFar

\* A question that is sent, an answer that is written and the end of a child are its steps.
LEMMA RefinesAsk ==
  ASSUME NEW c \in CalcClients, NEW i \in 1 .. Len(Asks[c]),
         AskedSoFar' = [AskedSoFar EXCEPT ![c] = Append(@, Asks[c][i])], UNCHANGED <<RepliedSoFar, OverSoFar>>
  PROVE  Calc!Abstract!Next
<1>1. Asks[c][i] \in UNION {Calc!ToSet(Asks[d]) : d \in CalcClients}
  BY QuestionsOf DEF Calc!ToSet
<1> QED
  BY <1>1 DEF Calc!Abstract!Next, Calc!Abstract!Ask, AskedSoFar, RepliedSoFar, OverSoFar

\* One answer more, the right one to the first question that has none.
LEMMA RefinesReply ==
  ASSUME NEW c \in CalcClients, ~OverSoFar[c], Len(RepliedSoFar[c]) < Len(AskedSoFar[c]),
         RepliedSoFar' = [RepliedSoFar EXCEPT ![c] = Append(@, Calc!CalculatorHelper(AskedSoFar[c][Len(@) + 1]))],
         UNCHANGED <<AskedSoFar, OverSoFar>>
  PROVE  Calc!Abstract!Next
  BY DEF Calc!Abstract!Next, Calc!Abstract!Reply, AskedSoFar, RepliedSoFar, OverSoFar

\* The end of a conversation without an answer or without an open question.
LEMMA RefinesEnd ==
  ASSUME NEW c \in CalcClients, Len(RepliedSoFar[c]) \in {0, Len(AskedSoFar[c])},
         OverSoFar' = [OverSoFar EXCEPT ![c] = TRUE], UNCHANGED <<AskedSoFar, RepliedSoFar>>
  PROVE  Calc!Abstract!Next
  BY DEF Calc!Abstract!Next, Calc!Abstract!End, AskedSoFar, RepliedSoFar, OverSoFar

\* The conversations whose children and questions a step leaves alone.
LEMMA SameReplies ==
  ASSUME \A d \in CalcClients : child'[d].served = child[d].served
  PROVE  RepliedSoFar' = RepliedSoFar
  BY DEF RepliedSoFar

\* So with the questions.
LEMMA SameAsked ==
  ASSUME \A d \in CalcClients : asker'[d].asked = asker[d].asked
  PROVE  AskedSoFar' = AskedSoFar
  BY DEF AskedSoFar

\* So with the ends.
LEMMA SameOver ==
  ASSUME \A d \in CalcClients : (child'[d].pc \in {"refused", "exited"}) = (child[d].pc \in {"refused", "exited"})
  PROVE  OverSoFar' = OverSoFar
  BY DEF OverSoFar

\* A client asks, or does what the service does not see.
LEMMA ClientsRefine ==
  ASSUME CalcInv, NEW c \in CalcClients, Calc!Client(c)
  PROVE  Calc!Abstract!Next \/ UNCHANGED Calc!Abstract!vars
<1>1. CalcTypes /\ CalcOne(c) /\ asker \in [CalcClients -> CalcAskers] /\ asker[c] \in CalcAskers
  BY DEF CalcInv, CalcTypes, CalcRest, CalcOne
<1>2. UNCHANGED <<RepliedSoFar, OverSoFar>>
  <2>1. UNCHANGED child
    BY DEF Calc!Client, Calc!Connect, Calc!Send, Calc!Receive, Calc!ReceiveBurst, Calc!ReceiveEnd
  <2> QED
    BY <2>1 DEF RepliedSoFar, OverSoFar
<1>3. CASE Calc!Send(c) /\ asker[c].asked < Len(Asks[c])
  <2>1. PICK m \in Nat : m = asker[c].asked
    BY <1>1, CalcFacts
  <2>2. PICK pc : asker' = [asker EXCEPT ![c].asked = m + 1, ![c].pc = pc]
    BY <1>3, <2>1 DEF Calc!Send
  <2>3. asker'[c].asked = m + 1 /\ \A d \in CalcClients : d # c => asker'[d].asked = asker[d].asked
    <3>1. asker'[c] = [asker[c] EXCEPT !.asked = m + 1, !.pc = pc]
      BY <1>1, <2>2
    <3>2. asker'[c].asked = m + 1
      BY <1>1, <3>1 DEF CalcAskers
    <3>3. \A d \in CalcClients : d # c => asker'[d] = asker[d]
      BY <1>1, <2>2
    <3> QED
      BY <3>2, <3>3
  <2>4. m + 1 \in 1 .. Len(Asks[c]) /\ Asks[c] \in Seq(Questions)
    BY <1>3, <2>1, QuestionsOf
  <2>5. SubSeq(Asks[c], 1, m + 1) = Append(SubSeq(Asks[c], 1, m), Asks[c][m + 1])
    <3>1. m + 1 \in Nat /\ m + 1 >= 1 /\ m + 1 - 1 = m /\ m \in Nat /\ m <= Len(Asks[c]) /\ m + 1 <= Len(Asks[c])
      BY <2>4
    <3> QED
      BY <2>4, <3>1
  <2>6. AskedSoFar' = [AskedSoFar EXCEPT ![c] = Append(@, Asks[c][m + 1])]
    BY <2>1, <2>3, <2>5 DEF AskedSoFar
  <2> QED
    BY <1>2, <2>4, <2>6, RefinesAsk
<1>4. CASE ~(Calc!Send(c) /\ asker[c].asked < Len(Asks[c]))
  <2>1. PICK u : asker' = [asker EXCEPT ![c] = u] /\ u.asked = asker[c].asked
    <3>1. CASE Calc!Connect(c)
      <4>1. PICK pc : asker' = [asker EXCEPT ![c].pc = pc]
        BY <3>1 DEF Calc!Connect
      <4>2. PICK u : u = [asker[c] EXCEPT !.pc = pc]
        OBVIOUS
      <4>3. asker' = [asker EXCEPT ![c] = u] /\ u.asked = asker[c].asked
        BY <1>1, <4>1, <4>2 DEF CalcAskers
      <4> QED
        BY <4>3
    <3>2. CASE Calc!Send(c)
      <4>1. PICK pc : asker' = [asker EXCEPT ![c].pc = pc]
        BY <1>4, <3>2 DEF Calc!Send
      <4>2. PICK u : u = [asker[c] EXCEPT !.pc = pc]
        OBVIOUS
      <4>3. asker' = [asker EXCEPT ![c] = u] /\ u.asked = asker[c].asked
        BY <1>1, <4>1, <4>2 DEF CalcAskers
      <4> QED
        BY <4>3
    <3>3. CASE Calc!Receive(c)
      <4>1. CASE \E pc, in, got : asker' = [asker EXCEPT ![c].pc = pc, ![c].in = in, ![c].got = got]
        <5>1. PICK pc, in, got : asker' = [asker EXCEPT ![c].pc = pc, ![c].in = in, ![c].got = got]
          BY <4>1
        <5>2. PICK u : u = [asker[c] EXCEPT !.pc = pc, !.in = in, !.got = got]
          OBVIOUS
        <5>3. u.asked = asker[c].asked
          BY <1>1, <5>2 DEF CalcAskers
        <5>4. asker' = [asker EXCEPT ![c] = u]
          BY <1>1, <5>1, <5>2
        <5> QED
          BY <5>3, <5>4
      <4>2. CASE asker' = [asker EXCEPT ![c].pc = "aborted"]
        <5>1. PICK u : u = [asker[c] EXCEPT !.pc = "aborted"]
          OBVIOUS
        <5>2. asker' = [asker EXCEPT ![c] = u] /\ u.asked = asker[c].asked
          BY <1>1, <4>2, <5>1 DEF CalcAskers
        <5> QED
          BY <5>2
      <4>3. PICK k \in 1 .. Len(link[c].down) :
              LET e == Calc!Decode(asker[c].in \o SubSeq(link[c].down, 1, k))
              IN IF e = Calc!Nothing
                 THEN asker' = [asker EXCEPT ![c].pc = "aborted"]
                 ELSE asker' = [asker EXCEPT ![c].pc = "send", ![c].in = e.rest,
                                             ![c].got = Append(@, Calc!Deserialize(e.content))]
        BY <3>3 DEF Calc!Receive
      <4>4. PICK d : d = Calc!Decode(asker[c].in \o SubSeq(link[c].down, 1, k))
        OBVIOUS
      <4>5. PICK got : got = Append(asker[c].got, Calc!Deserialize(d.content))
        OBVIOUS
      <4>6. CASE d # Calc!Nothing
        <5>1. asker' = [asker EXCEPT ![c].pc = "send", ![c].in = d.rest, ![c].got = got]
          BY <1>1, <4>3, <4>4, <4>5, <4>6
        <5> QED
          BY <4>1, <5>1
      <4> QED
        BY <4>2, <4>3, <4>4, <4>6
    <3>4. CASE Calc!ReceiveBurst(c)
      <4>1. PICK got : asker' = [asker EXCEPT ![c].got = got]
        BY <1>1, <3>4 DEF Calc!ReceiveBurst
      <4>2. PICK u : u = [asker[c] EXCEPT !.got = got]
        OBVIOUS
      <4>3. asker' = [asker EXCEPT ![c] = u] /\ u.asked = asker[c].asked
        BY <1>1, <4>1, <4>2 DEF CalcAskers
      <4> QED
        BY <4>3
    <3>5. CASE Calc!ReceiveEnd(c)
      <4>1. asker' = [asker EXCEPT ![c].pc = "done"]
        BY <3>5 DEF Calc!ReceiveEnd
      <4>2. PICK u : u = [asker[c] EXCEPT !.pc = "done"]
        OBVIOUS
      <4>3. asker' = [asker EXCEPT ![c] = u] /\ u.asked = asker[c].asked
        BY <1>1, <4>1, <4>2 DEF CalcAskers
      <4> QED
        BY <4>3
    <3> QED
      BY <3>1, <3>2, <3>3, <3>4, <3>5 DEF Calc!Client
  <2>2. \A d \in CalcClients : asker'[d].asked = asker[d].asked
    BY <1>1, <2>1
  <2> QED
    BY <1>2, <2>2, SameAsked, RefinesStutter
<1> QED
  BY <1>3, <1>4

\* A child replies, ends, or does what the service does not see.
LEMMA ChildrenRefine ==
  ASSUME CalcInv, NEW c \in CalcClients, Calc!Child(c)
  PROVE  Calc!Abstract!Next \/ UNCHANGED Calc!Abstract!vars
<1>1. CalcTypes /\ CalcOne(c) /\ child \in [CalcClients -> CalcChildren] /\ child[c] \in CalcChildren
  BY DEF CalcInv, CalcTypes, CalcRest, CalcOne
<1>2. UNCHANGED AskedSoFar
  <2>1. UNCHANGED asker
    BY DEF Calc!Child, Calc!ChildRead, Calc!ChildDecode, Calc!ChildExit
  <2> QED
    BY <2>1 DEF AskedSoFar
<1>n. PICK n \in Nat : n = Len(child[c].served)
  BY <1>1, CalcFacts
<1>m. PICK m \in Nat : m = asker[c].asked
  BY <1>1, CalcFacts
<1>3. n <= m /\ m <= Len(Asks[c]) /\ Len(Asks[c]) \in Nat /\ Asks[c] \in Seq(Questions)
  BY <1>1, <1>n, <1>m, QuestionsOf DEF CalcOne, Progress
<1>4. /\ RepliedSoFar[c] = child[c].served /\ AskedSoFar[c] = SubSeq(Asks[c], 1, m)
      /\ Len(RepliedSoFar[c]) = n /\ Len(AskedSoFar[c]) = m
      /\ OverSoFar[c] = (child[c].pc \in {"refused", "exited"})
  <2>1. Len(SubSeq(Asks[c], 1, m)) = m
    BY <1>3
  <2> QED
    BY <1>n, <1>m, <2>1 DEF RepliedSoFar, AskedSoFar, OverSoFar
<1>5. PICK p \in Seq(Seq(Wire)) : p = Ups(c)
  BY PacketsOf
<1>6. Framed(p) /\ n \in 0 .. Len(p) /\ m \in n .. Len(p) /\ Flows(p, n, m, child[c].in, link[c].up)
  <2>1. Framed(p) /\ Len(p) = Len(Asks[c])
    BY <1>5, PacketsOf
  <2>2. Flows(p, n, m, child[c].in, link[c].up)
    BY <1>1, <1>n, <1>m, <1>5 DEF CalcOne, UpStream
  <2> QED
    BY <1>3, <2>1, <2>2
<1>7. PICK d : d = Calc!Decode(child[c].in)
  OBVIOUS
<1>8. child[c].in \in Seq(Wire) /\ link[c].up \in Seq(Wire)
  BY <1>1, CalcFacts
<1>9. CASE Calc!ChildRead(c) \/ (Calc!ChildDecode(c) /\ d = Calc!Nothing)
  <2>1. child[c].pc \in {"read", "decode"}
    BY <1>9 DEF Calc!ChildRead, Calc!ChildDecode
  <2>u. PICK pc \in {"read", "decode"} : \E in : child' = [child EXCEPT ![c].pc = pc, ![c].in = in]
    <3>1. CASE Calc!ChildRead(c)
      <4>1. PICK k : child' = [child EXCEPT ![c].pc = "decode", ![c].in = @ \o SubSeq(link[c].up, 1, k)]
        BY <3>1 DEF Calc!ChildRead
      <4>2. PICK in : in = child[c].in \o SubSeq(link[c].up, 1, k)
        OBVIOUS
      <4> QED
        BY <1>1, <4>1, <4>2
    <3>2. CASE Calc!ChildDecode(c) /\ d = Calc!Nothing
      <4>1. child' = [child EXCEPT ![c].pc = "read"]
        BY <1>7, <3>2 DEF Calc!ChildDecode
      <4>2. [child[c] EXCEPT !.pc = "read"] = [child[c] EXCEPT !.pc = "read", !.in = child[c].in]
        BY <1>1 DEF CalcChildren
      <4>3. child' = [child EXCEPT ![c].pc = "read", ![c].in = child[c].in]
        BY <1>1, <4>1, <4>2
      <4> QED
        BY <4>3
    <3> QED
      BY <1>9, <3>1, <3>2
  <2>2. PICK in : child' = [child EXCEPT ![c].pc = pc, ![c].in = in]
    BY <2>u
  <2>3. child'[c] = [child[c] EXCEPT !.pc = pc, !.in = in] /\ \A e \in CalcClients : e # c => child'[e] = child[e]
    BY <1>1, <2>2
  <2>4. child'[c].pc = pc /\ child'[c].served = child[c].served
    BY <1>1, <2>3 DEF CalcChildren
  <2>5. \A e \in CalcClients : child'[e].served = child[e].served
    BY <2>3, <2>4
  <2>6. \A e \in CalcClients : (child'[e].pc \in {"refused", "exited"}) = (child[e].pc \in {"refused", "exited"})
    <3> SUFFICES ASSUME NEW e \in CalcClients
                 PROVE  (child'[e].pc \in {"refused", "exited"}) = (child[e].pc \in {"refused", "exited"})
      OBVIOUS
    <3>1. CASE e = c
      <4>1. child'[e].pc \notin {"refused", "exited"} /\ child[e].pc \notin {"refused", "exited"}
        BY <2>1, <2>4, <3>1
      <4> QED
        BY <4>1
    <3>2. CASE e # c
      BY <2>3, <3>2
    <3> QED
      BY <3>1, <3>2
  <2> QED
    BY <1>2, <2>5, <2>6, SameReplies, SameOver, RefinesStutter
<1>10. CASE Calc!ChildDecode(c) /\ d # Calc!Nothing
  <2>1. /\ n < m /\ n + 1 \in 1 .. Len(p) /\ d.content = SubSeq(p[n + 1], 2, Len(p[n + 1]))
    BY <1>6, <1>7, <1>8, <1>10, DecodeFirst
  <2>2. n + 1 \in 1 .. Len(Asks[c])
    BY <1>3, <2>1
  <2>3. Calc!Deserialize(d.content) = Asks[c][n + 1]
    BY <1>5, <2>1, <2>2, PacketsOf
  <2>4. PICK a : a = Calc!CalculatorHelper(Asks[c][n + 1])
    OBVIOUS
  <2>5. child[c].pc = "decode" /\ child' = [child EXCEPT ![c].in = d.rest, ![c].served = Append(child[c].served, a)]
    BY <1>1, <1>7, <1>10, <2>3, <2>4 DEF Calc!ChildDecode
  <2>6. /\ child'[c] = [child[c] EXCEPT !.in = d.rest, !.served = Append(child[c].served, a)]
        /\ \A e \in CalcClients : e # c => child'[e] = child[e]
    BY <1>1, <2>5
  <2>7. child'[c].pc = child[c].pc /\ child'[c].served = Append(child[c].served, a)
    BY <1>1, <2>6 DEF CalcChildren
  <2>8. RepliedSoFar' = [RepliedSoFar EXCEPT ![c] = Append(child[c].served, a)]
    BY <2>6, <2>7 DEF RepliedSoFar
  <2>9. AskedSoFar[c][n + 1] = Asks[c][n + 1]
    <3>1. n + 1 \in 1 .. m - 1 + 1 /\ 1 + (n + 1) - 1 = n + 1 /\ \A i \in 1 .. m : Asks[c][i] \in Questions
      BY <1>3, <2>1
    <3>2. SubSeq(Asks[c], 1, m)[n + 1] = Asks[c][n + 1]
      BY <1>3, <2>1, <3>1
    <3> QED
      BY <1>4, <3>2
  <2>10. RepliedSoFar' = [RepliedSoFar EXCEPT ![c] = Append(@, Calc!CalculatorHelper(AskedSoFar[c][Len(@) + 1]))]
    <3>1. Append(child[c].served, a)
            = Append(RepliedSoFar[c], Calc!CalculatorHelper(AskedSoFar[c][Len(RepliedSoFar[c]) + 1]))
      BY <1>4, <2>4, <2>9
    <3> QED
      BY <2>8, <3>1
  <2>11. OverSoFar' = OverSoFar
    <3>1. \A e \in CalcClients : child'[e].pc = child[e].pc
      BY <2>6, <2>7
    <3> QED
      BY <3>1, SameOver
  <2>12. ~OverSoFar[c] /\ Len(RepliedSoFar[c]) < Len(AskedSoFar[c])
    BY <1>4, <2>1, <2>5
  <2> QED
    BY <1>2, <2>10, <2>11, <2>12, RefinesReply
<1>11. CASE Calc!ChildExit(c)
  <2>1. child[c].pc = "read" /\ link[c].up = <<>> /\ child' = [child EXCEPT ![c].pc = "exited"]
    BY <1>11 DEF Calc!ChildExit
  <2>2. d = Calc!Nothing
    BY <1>1, <1>7, <2>1 DEF CalcOne, ReadsOn
  <2>3. n = m
    <3>1. PICK in \in Seq(Wire) : in = child[c].in
      BY <1>8
    <3>2. PICK up \in Seq(Wire) : up = link[c].up
      BY <1>8
    <3>3. d = Calc!Decode(in) /\ Len(up) = 0 /\ Flows(p, n, m, in, up)
      BY <1>6, <1>7, <2>1, <3>1, <3>2
    <3>4. Calc!Decode(in) = Calc!Nothing
      BY <2>2, <3>3
    <3> QED
      BY <1>6, <3>3, <3>4, DecodeFirst
  <2>4. child'[c] = [child[c] EXCEPT !.pc = "exited"] /\ \A e \in CalcClients : e # c => child'[e] = child[e]
    BY <1>1, <2>1
  <2>5. child'[c].pc = "exited" /\ child'[c].served = child[c].served
    BY <1>1, <2>4 DEF CalcChildren
  <2>6. \A e \in CalcClients : child'[e].served = child[e].served
    BY <2>4, <2>5
  <2>7. OverSoFar' = [OverSoFar EXCEPT ![c] = TRUE]
    BY <2>4, <2>5 DEF OverSoFar
  <2>8. Len(RepliedSoFar[c]) \in {0, Len(AskedSoFar[c])}
    BY <1>4, <2>3
  <2> QED
    BY <1>2, <2>6, <2>7, <2>8, SameReplies, RefinesEnd
<1> QED
  BY <1>9, <1>10, <1>11 DEF Calc!Child

\* A failed fork is an end before the first answer; the rest is not seen.
LEMMA ParentRefines ==
  ASSUME CalcInv, Calc!Parent
  PROVE  Calc!Abstract!Next \/ UNCHANGED Calc!Abstract!vars
<1>1. UNCHANGED asker /\ UNCHANGED AskedSoFar
  BY DEF Calc!Parent, Calc!Start, Calc!Accept, Calc!Fork, Calc!CloseConn, AskedSoFar
<1>2. CASE Calc!Start \/ Calc!Accept \/ Calc!CloseConn
  <2>1. UNCHANGED child
    BY <1>2 DEF Calc!Start, Calc!Accept, Calc!CloseConn
  <2>2. UNCHANGED <<RepliedSoFar, OverSoFar>>
    BY <2>1 DEF RepliedSoFar, OverSoFar
  <2> QED
    BY <1>1, <2>2, RefinesStutter
<1>3. CASE Calc!Fork
  <2>1. PICK c \in parent.conn, pc \in {"read", "refused"} : child' = [child EXCEPT ![c].pc = pc]
    BY <1>3 DEF Calc!Fork
  <2>2. c \in CalcClients /\ child \in [CalcClients -> CalcChildren] /\ child[c] \in CalcChildren
    BY DEF CalcInv, CalcTypes
  <2>3. child[c].pc = "none"
    BY <1>3 DEF Calc!Fork, CalcInv, ForkedOnce
  <2>4. child[c].served = <<>>
    BY <2>2, <2>3 DEF CalcInv, CalcRest, ReadsOn
  <2>5. child'[c] = [child[c] EXCEPT !.pc = pc] /\ \A d \in CalcClients : d # c => child'[d] = child[d]
    BY <2>1, <2>2
  <2>6. child'[c].pc = pc /\ child'[c].served = child[c].served
    BY <2>2, <2>5 DEF CalcChildren
  <2>7. \A d \in CalcClients : child'[d].served = child[d].served
    BY <2>5, <2>6
  <2>8. CASE pc = "read"
    <3>1. \A d \in CalcClients : (child'[d].pc \in {"refused", "exited"}) = (child[d].pc \in {"refused", "exited"})
      <4> SUFFICES ASSUME NEW d \in CalcClients
                   PROVE  (child'[d].pc \in {"refused", "exited"}) = (child[d].pc \in {"refused", "exited"})
        OBVIOUS
      <4>1. CASE d = c
        <5>1. child'[d].pc \notin {"refused", "exited"} /\ child[d].pc \notin {"refused", "exited"}
          BY <2>3, <2>6, <2>8, <4>1
        <5> QED
          BY <5>1
      <4>2. CASE d # c
        BY <2>5, <4>2
      <4> QED
        BY <4>1, <4>2
    <3> QED
      BY <1>1, <2>7, <3>1, SameReplies, SameOver, RefinesStutter
  <2>9. CASE pc = "refused"
    <3>1. OverSoFar' = [OverSoFar EXCEPT ![c] = TRUE]
      BY <2>5, <2>6, <2>9 DEF OverSoFar
    <3>2. RepliedSoFar[c] = <<>>
      BY <2>2, <2>4 DEF RepliedSoFar
    <3>3. Len(RepliedSoFar[c]) \in {0, Len(AskedSoFar[c])}
      BY <3>2
    <3> QED
      BY <1>1, <2>2, <2>7, <3>1, <3>3, SameReplies, RefinesEnd
  <2> QED
    BY <2>8, <2>9
<1> QED
  BY <1>2, <1>3 DEF Calc!Parent

\* Every step of the processes is a step of the service, or none.
LEMMA RefinesStep ==
  ASSUME CalcInv, [Calc!Next]_calcVars
  PROVE  [Calc!Abstract!Next]_(Calc!Abstract!vars)
<1>1. CASE UNCHANGED calcVars
  <2>1. UNCHANGED <<AskedSoFar, RepliedSoFar, OverSoFar>>
    BY <1>1 DEF calcVars, AskedSoFar, RepliedSoFar, OverSoFar
  <2> QED
    BY <2>1, RefinesStutter
<1>2. CASE Calc!Next
  BY <1>2, ParentRefines, ChildrenRefine, ClientsRefine DEF Calc!Next
<1> QED
  BY <1>1, <1>2
==============================================================================
