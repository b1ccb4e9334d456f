------------------------------ MODULE FifoPair ------------------------------
(***************************************************************************)
(* The pairs of pro_interact that meet at a FIFO, whose file outlives the  *)
(* processes.  In 3.namedpipe a client writes its lines into it; in        *)
(* 4.sharedmem lines go to a shared segment, and the write to the FIFO     *)
(* that would tell the server to look is commented out.                    *)
(***************************************************************************)
EXTENDS Integers

CONSTANTS
  Pairs,        \* a subset of {"pipe", "shm"}
  Clients,
  MaxStarts     \* bound: runs of the server

VARIABLES
  pair,         \* which pair runs
  dir,          \* is there the directory that the code names: of the log's files in
                \* 3.namedpipe, of ftok's key in 4.sharedmem?
  server,       \* where the server is; "none" when there is none
  fifo,         \* is the FIFO in the file system?
  segment,      \* who made the shared segment: "server", "client" or, without one, "none"
  client,       \* client[c]: where the client is, or that it is gone
  starts,       \* runs of the server
  failures      \* ways in which servers were killed or gave up

vars == <<pair, dir, server, fifo, segment, client, starts, failures>>

InitState ==
  /\ pair \in Pairs /\ dir \in BOOLEAN
  /\ server = "none" /\ fifo = FALSE /\ segment = "none" /\ starts = 0 /\ failures = {}
  /\ client = [c \in Clients |-> "new"]

Reader == server \in {"reading", "unlinking"}

-----------------------------------------------------------------------------
(***************************************************************************)
(* The server.  exit does not run the destructor of main's init.           *)
(***************************************************************************)

Fail(how) == server' = "none" /\ failures' = failures \cup {how}

\* Init::Init: mkfifo finds a FIFO, or fails for another reason.
Init_mkfifo ==
  /\ server = "none" /\ starts < MaxStarts /\ starts' = starts + 1
  /\ \/ fifo /\ Fail("mkfifo") /\ UNCHANGED fifo
     \/ ~fifo /\ UNCHANGED <<server, fifo, failures>>
     \/ /\ ~fifo /\ fifo' = TRUE /\ UNCHANGED failures
        /\ server' = IF pair = "shm" THEN "segment" ELSE "opening"
  /\ UNCHANGED <<pair, dir, segment, client>>

\* CreatShm: GetKey's ftok of a path that must exist, then shmget with IPC_EXCL,
\* which fails where there is a segment and may fail otherwise.
CreatShm ==
  /\ server = "segment"
  /\ \/ ~dir /\ Fail("key") /\ UNCHANGED segment
     \/ dir /\ Fail("shmget") /\ UNCHANGED segment
     \/ dir /\ segment = "none" /\ segment' = "server" /\ server' = "opening" /\ UNCHANGED failures
  /\ UNCHANGED <<pair, dir, fifo, client, starts>>

\* open fails.
OpenError ==
  /\ server = "opening" /\ Fail("open")
  /\ UNCHANGED <<pair, dir, fifo, segment, client, starts>>

\* open returns when a client opens too.  3.namedpipe then writes to a log file,
\* and Log::PrintOnefile ends a program that cannot open it.
Open ==
  /\ server = "opening" /\ \E c \in Clients : client[c] \in {"opening", "open"}
  /\ client' = [c \in Clients |-> IF client[c] = "opening" THEN "open" ELSE client[c]]
  /\ IF pair = "pipe" /\ ~dir THEN Fail("log") ELSE server' = "reading" /\ UNCHANGED failures
  /\ UNCHANGED <<pair, dir, fifo, segment, starts>>

\* Mutant: exit instead of break.
ReadEofExit ==
  /\ server = "reading" /\ \A c \in Clients : client[c] # "open"
  /\ server' = "none"
  /\ UNCHANGED <<pair, dir, fifo, segment, client, starts, failures>>

\* read returns 0: no writer is left.  3.namedpipe keeps the descriptor to its
\* end; 4.sharedmem closes it at once.
ReadEof ==
  /\ server = "reading" /\ \A c \in Clients : client[c] # "open"
  /\ server' = IF pair = "shm" THEN "closed" ELSE "unlinking"
  /\ UNCHANGED <<pair, dir, fifo, segment, client, starts, failures>>

\* shmctl(IPC_RMID).
RemoveShm ==
  /\ server = "closed"
  /\ segment' = "none" /\ server' = "detached"
  /\ UNCHANGED <<pair, dir, fifo, client, starts, failures>>

\* Init::~Init and the end of the process.
Init_unlink ==
  /\ server \in {"unlinking", "detached"}
  /\ fifo' = FALSE /\ server' = "none"
  /\ client' = [c \in Clients |-> CASE client[c] = "opening" -> "stranded" [] client[c] = "open" -> "orphan"
                                    [] OTHER -> client[c]]
  /\ UNCHANGED <<pair, dir, segment, starts, failures>>

\* Ctrl-C, wherever the server is: nothing is taken away.
Kill ==
  /\ server # "none" /\ Fail("killed")
  /\ UNCHANGED <<pair, dir, fifo, segment, client, starts>>

-----------------------------------------------------------------------------
(***************************************************************************)
(* The clients.                                                            *)
(***************************************************************************)

\* GetShm, in 4.sharedmem, makes the segment when there is none, or fails as
\* CreatShm does; then open, which fails without a FIFO and waits for somebody
\* who reads.
ClientOpen(c) ==
  /\ client[c] = "new"
  /\ \/ /\ pair = "shm" /\ client' = [client EXCEPT ![c] = "gone"] /\ UNCHANGED segment
     \/ /\ pair = "pipe" \/ dir
        /\ client' = [client EXCEPT ![c] = IF ~fifo THEN "gone" ELSE IF Reader THEN "open" ELSE "opening"]
        /\ segment' = IF pair = "shm" /\ segment = "none" THEN "client" ELSE segment
  /\ UNCHANGED <<pair, dir, server, fifo, starts, failures>>

\* Without a reader the write raises SIGPIPE.  4.sharedmem's is to the segment.
ClientWrite(c) ==
  /\ pair = "pipe" /\ client[c] \in {"open", "orphan"}
  /\ client' = IF client[c] = "open" /\ Reader THEN client ELSE [client EXCEPT ![c] = "gone"]
  /\ UNCHANGED <<pair, dir, server, fifo, segment, starts, failures>>

\* Its loop has no end: the user stops it.
ClientLeave(c) ==
  /\ client[c] \notin {"new", "gone"}
  /\ client' = [client EXCEPT ![c] = "gone"]
  /\ UNCHANGED <<pair, dir, server, fifo, segment, starts, failures>>

Next == \/ Init_mkfifo \/ CreatShm \/ OpenError \/ Open \/ ReadEof \/ RemoveShm \/ Init_unlink \/ Kill
        \/ \E c \in Clients : ClientOpen(c) \/ ClientWrite(c) \/ ClientLeave(c)

Spec == InitState /\ [][Next]_vars

-----------------------------------------------------------------------------
TypeOK ==
  /\ pair \in Pairs /\ dir \in BOOLEAN /\ fifo \in BOOLEAN /\ segment \in {"none", "server", "client"}
  /\ server \in {"none", "segment", "opening", "reading", "closed", "detached", "unlinking"}
  /\ client \in [Clients -> {"new", "opening", "open", "stranded", "orphan", "gone"}]

\* A server that comes to the end of main leaves nothing behind.  One that a
\* signal or any of its exits ends leaves the FIFO, and none ever runs again; its
\* segment stays only when it had made it and then was killed or could not open.
\* And a client waits for a FIFO that is no longer in the file system only in the
\* pair that closes it before unlinking.
NothingLeftBehind ==
  /\ failures = {} /\ server = "none" => ~fifo /\ segment # "server"
  /\ failures # {} => fifo /\ server = "none"
  /\ segment = "server" /\ server = "none" => failures \cap {"killed", "open"} # {}
  /\ (\E c \in Clients : client[c] = "stranded") => pair = "shm"
=============================================================================
