SPECIFICATION Spec
CONSTANTS
  c1 = c1
  c2 = c2
  c3 = c3
  \* two slots for three clients, and an alias that can be ready while a slot is free
  Kinds = {"select", "poll", "epoll"}
  Clients = {c1, c2, c3}
  Slots = 3
  Listener = 3
  Fds <- MCFds
  Alias = 5
  Backlog = 2
  MaxData = 1
  EchoLines <- MCEchoLines
  MaxLost = 1
  MaxTwice = 1
  \* two clients on each of two hosts
  Ips = {1, 2}
  Ports = {1, 2}
  MaxChat = 1
  Versions = {"plain", "redirecting"}
  Inputs = {"terminal", "pipe"}
  ShellLines <- MCShellLines
  MaxScript = 3
  Opens <- MCOpens
  Codes <- MCCodes
  Home = "/home"
  Dirs = {"/home", "/tmp"}
  Pairs = {"pipe", "shm"}
  MaxStarts = 3
  \* a pipe that fills up, and a read that does not empty it
  Capacity = 3
  Reads = 3
  Chunk = 2
  Threads <- MCThreads
  Tickets = 4
INVARIANTS
  NeverBlocks
  TableMatchesOpen
  AnswersInStep
  RegisteredHears
  LinesRunAsTyped
  NothingLeftBehind
  TypeOK
PROPERTIES
  EveryMessageRead
  NobodyIsStuck
CHECK_DEADLOCK FALSE
