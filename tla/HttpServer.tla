----------------------------- MODULE HttpServer -----------------------------
(***************************************************************************)
(* The HTTP server of Net/4.Net: a detached thread for every connection,   *)
(* which gets its descriptor through a cell of the heap, takes whatever    *)
(* one recv returns for a whole request, and answers with a file.          *)
(***************************************************************************)
EXTENDS Integers, Sequences, FiniteSets, SequencesExt

CONSTANTS
  Clients,
  Fds,         \* descriptors for connections
  Cells,       \* addresses of ThreadData
  Requests,    \* Requests[c]: what c's first segment may hold: its lines, the last one unended
  Url,         \* Url[l]: the second word of a request line l
  Suffix,      \* Suffix[u]: what follows the last dot of u, "" without one
  Files,       \* Files[p]: the content of the file p under wwwroot
  Directories, \* the paths that are directories; the path "" is wwwroot itself
  Stale,       \* what an unused buffer may hold: sequences of lines
  MaxLeaves    \* bound: the clients that leave

VARIABLES
  alive,       \* the server's process
  backlog,     \* clients that wait for accept
  open,        \* open[fd]: the client behind fd, as a set of at most one; None has none
  heap,        \* heap[cell]: sockfd_ of the ThreadData there, or 0
  thread,      \* thread[c]: the thread made for c's connection
  peer         \* peer[c]: [pc, asked, data, answer]

vars == <<alive, backlog, open, heap, thread, peer>>

None == 0
Nothing == <<>>

\* HttpServer::HttpServer and Init.
Init ==
  /\ alive = TRUE /\ backlog = <<>>
  /\ open = [fd \in Fds \cup {None} |-> {}]
  /\ heap = [cell \in Cells |-> None]
  /\ thread = [c \in Clients |-> [pc |-> "none", cell |-> None, fd |-> None, url |-> ""]]
  /\ peer = [c \in Clients |-> [pc |-> "new", asked |-> Nothing, data |-> Nothing, answer |-> Nothing]]

-----------------------------------------------------------------------------
(***************************************************************************)
(* A request and its answer.                                               *)
(***************************************************************************)

ContentType == [s \in {".html", ".png", ".jpg"} |->
                  CASE s = ".html" -> "text/html" [] s = ".png" -> "image/png"
                    [] s = ".jpg" -> "image/jpeg"]

\* head_package: the ended lines before the first empty one.
Deserialize(text) ==
  LET empty == {i \in 1 .. Len(text) : text[i] = ""}
  IN SubSeq(text, 1, (IF empty = {} THEN Len(text) ELSE Min(empty)) - 1)

\* The url of the request line, "" when it has no second word; without any line
\* it reads through a null pointer.
Parse(text) == IF Deserialize(text) = <<>> THEN "crash"
               ELSE LET line == Deserialize(text)[1]
                    IN IF line \in DOMAIN Url THEN Url[line] ELSE ""

File_path(url) == IF url \in {"/", "/index.html"} THEN "/index.html" ELSE url

\* A directory can be opened; its length is -1 or huge, and resize throws.
Throws == "throws"

ReadFile(path) == IF path \in Directories THEN Throws
                  ELSE IF path \in DOMAIN Files THEN Files[path] ELSE ""

SuffixToContent_type(url) ==
  LET suffix == IF url \in DOMAIN Suffix /\ Suffix[url] # "" THEN Suffix[url] ELSE ".html"
  IN IF suffix \in DOMAIN ContentType THEN ContentType[suffix] ELSE "text/html"

\* An empty file is as good as none.
Response(url) ==
  LET content == ReadFile(File_path(url))
  IN <<IF content = "" THEN "404" ELSE "200",
       IF content = "" THEN ReadFile("/err.html") ELSE content,
       SuffixToContent_type(url)>>

-----------------------------------------------------------------------------
(***************************************************************************)
(* The server.                                                             *)
(***************************************************************************)

\* Mutant: one ThreadData for all.
OneCell == CHOOSE cell \in Cells : TRUE

\* new ThreadData.
NewCell == CHOOSE cell \in Cells : heap[cell] = None

NewFd == CHOOSE fd \in Fds : open[fd] = {} /\ \A other \in Fds : open[other] = {} => fd <= other

\* Mutant: the request is handled before the next accept.
RunInLine ==
  /\ alive /\ backlog # <<>> /\ \E fd \in Fds : open[fd] = {}
  /\ \A c \in Clients : thread[c].pc \in {"none", "done"}
  /\ open' = [open EXCEPT ![NewFd] = {Head(backlog)}]
  /\ heap' = [heap EXCEPT ![NewCell] = NewFd]
  /\ thread' = [thread EXCEPT ![Head(backlog)].pc = "start", ![Head(backlog)].cell = NewCell]
  /\ backlog' = Tail(backlog)
  /\ UNCHANGED <<alive, peer>>

\* One turn of Run; a failed accept, when no descriptor is left, changes nothing.
Run ==
  /\ alive /\ backlog # <<>> /\ \E fd \in Fds : open[fd] = {}
  /\ open' = [open EXCEPT ![NewFd] = {Head(backlog)}]
  /\ heap' = [heap EXCEPT ![NewCell] = NewFd]
  /\ thread' = [thread EXCEPT ![Head(backlog)].pc = "start", ![Head(backlog)].cell = NewCell]
  /\ backlog' = Tail(backlog)
  /\ UNCHANGED <<alive, peer>>

\* ThreadRun up to the handler: sockfd is read from the cell.
ThreadStart(t) ==
  /\ alive /\ thread[t].pc = "start"
  /\ thread' = [thread EXCEPT ![t].pc = "recv", ![t].fd = heap[thread[t].cell]]
  /\ UNCHANGED <<alive, backlog, open, heap, peer>>

\* recv fills part of a buffer that nobody cleared, and Deserialize reads on to
\* the next zero: the request's last, unended line runs into what was there.
Joined(text, stale) ==
  IF stale = Nothing THEN text
  ELSE Front(text) \o <<Last(text) \o Head(stale)>> \o Tail(stale)

\* recv returned something: Deserialize and Parse.
Recv(t) ==
  /\ alive /\ thread[t].pc = "recv"
  /\ \E c \in open[thread[t].fd], stale \in Stale :
       /\ peer[c].data # Nothing
       /\ thread' = [thread EXCEPT ![t].pc = "send", ![t].url = Parse(Joined(peer[c].data, stale))]
       /\ peer' = [peer EXCEPT ![c].data = Nothing]
  /\ UNCHANGED <<alive, backlog, open, heap>>

\* recv returned 0 or -1.
RecvNothing(t) ==
  /\ alive /\ thread[t].pc = "recv"
  /\ \A c \in open[thread[t].fd] : peer[c].data = Nothing /\ peer[c].pc \in {"closed", "aborted"}
  /\ thread' = [thread EXCEPT ![t].pc = "close"]
  /\ UNCHANGED <<alive, backlog, open, heap, peer>>

\* The url has no answer: there was no line, or nobody catches what ReadFile threw.
Fatal(url) == url = "crash" \/ Response(url)[2] = Throws

\* The rest of HttpRequestHandler.  A send to a peer that closed and was then
\* reset raises SIGPIPE, which nobody ignores: it ends the process.
Send(t) ==
  /\ alive /\ thread[t].pc = "send"
  /\ IF \/ Fatal(thread[t].url)
        \/ \E c \in open[thread[t].fd] : peer[c].pc = "aborted"
     THEN alive' = FALSE /\ UNCHANGED <<thread, peer>>
     ELSE /\ UNCHANGED alive
          /\ thread' = [thread EXCEPT ![t].pc = "close"]
          /\ peer' = [c \in Clients |->
               IF c \in open[thread[t].fd] /\ peer[c].pc = "open"
               THEN [peer[c] EXCEPT !.answer = Response(thread[t].url)] ELSE peer[c]]
  /\ UNCHANGED <<backlog, open, heap>>

\* close(sockfd), delete td.
ThreadEnd(t) ==
  /\ alive /\ thread[t].pc = "close"
  /\ open' = [open EXCEPT ![thread[t].fd] = {}]
  /\ heap' = [heap EXCEPT ![thread[t].cell] = None]
  /\ thread' = [thread EXCEPT ![t] = [pc |-> "done", cell |-> None, fd |-> None, url |-> ""]]
  /\ UNCHANGED <<alive, backlog, peer>>

-----------------------------------------------------------------------------
(***************************************************************************)
(* The clients, as long as there is a server.                              *)
(***************************************************************************)

Connect(c) ==
  /\ alive /\ peer[c].pc = "new"
  /\ peer' = [peer EXCEPT ![c].pc = "open"]
  /\ backlog' = Append(backlog, c)
  /\ UNCHANGED <<alive, open, heap, thread>>

Ask(c) ==
  /\ alive /\ peer[c].pc = "open" /\ peer[c].asked = Nothing
  /\ \E r \in Requests[c] : peer' = [peer EXCEPT ![c].asked = r, ![c].data = r]
  /\ UNCHANGED <<alive, backlog, open, heap, thread>>

\* A client closes or is reset, to the server the same; or closes and then is
\* reset.
Leave(c) ==
  /\ alive
  /\ \/ peer[c].pc = "open" /\ Cardinality({d \in Clients : peer[d].pc \in {"closed", "aborted"}}) < MaxLeaves
     \/ peer[c].pc = "closed"
  /\ peer' = [peer EXCEPT ![c].pc = IF @ = "open" THEN "closed" ELSE "aborted"]
  /\ UNCHANGED <<alive, backlog, open, heap, thread>>

Thread(t) == ThreadStart(t) \/ Recv(t) \/ RecvNothing(t) \/ Send(t) \/ ThreadEnd(t)

Next == Run \/ \E c \in Clients : Thread(c) \/ Connect(c) \/ Ask(c) \/ Leave(c)

\* The accepting thread and the others are scheduled.
Fairness == WF_vars(Run) /\ \A c \in Clients : WF_vars(Thread(c))

Spec == Init /\ [][Next]_vars /\ Fairness

-----------------------------------------------------------------------------
(***************************************************************************)
(* Properties.                                                             *)
(***************************************************************************)

TypeOK ==
  /\ alive \in BOOLEAN /\ backlog \in Seq(Clients)
  /\ open \in [Fds \cup {None} -> SUBSET Clients] /\ heap \in [Cells -> Fds \cup {None}]
  /\ \A c \in Clients : /\ thread[c].pc \in {"none", "start", "recv", "send", "close", "done"}
                        /\ peer[c].pc \in {"new", "open", "closed", "aborted"}
                        /\ peer[c].data \in {Nothing, peer[c].asked}

\* An answer goes to the client whose request it answers, though descriptors
\* and cells are used again while other threads run, and though the buffer
\* still holds what another thread left: it is the answer to the url in the
\* client's own request line, provided that line came whole.
OwnAnswer ==
  \A c \in Clients : (peer[c].answer # Nothing /\ Len(peer[c].asked) > 1)
                       => peer[c].answer = Response(Parse(peer[c].asked))

\* What ends the process: a peer that is reset after it closed, a request line cut
\* in two (it runs on into whatever the buffer held), or a request that is fatal.
Disturbed(c) ==
  \/ peer[c].pc = "aborted" \/ Len(peer[c].asked) = 1
  \/ peer[c].asked # Nothing /\ Fatal(Parse(peer[c].asked))

\* In the end every client that asked and stayed has been answered, whatever the
\* others leave unsaid: it can only be let down by one that cuts its request line
\* in two, is reset after it closed, or asks for a directory.  (Clients ask once,
\* and what they were sent stays, so that this says it of each of them.)
EveryRequestAnswered ==
  <>[](\A c \in Clients : peer[c].asked # Nothing =>
         peer[c].answer # Nothing \/ peer[c].pc # "open" \/ \E d \in Clients : Disturbed(d))
=============================================================================
