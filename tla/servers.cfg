SPECIFICATION Spec
CONSTANTS
  c1 = c1
  c2 = c2
  c3 = c3
  w1 = w1
  w2 = w2
  Backlog = 1
  Asks <- MCAsks
  Bursts = {"b"}
  Chunk = 3
  Workers = {w1, w2}
  Clients = {c1, c2, c3}
  Conns <- MCConns
  Fds <- MCFds
  Words <- MCWords
  Empty = ""
  Lines <- MCLines
  Unvalid = "U"
  Retries <- MCRetries
  MaxCrashes = 1
  PoolWorkers = {"w1", "w2", "w3"}
  Task = {1, 2}
  MaxTasks = 3
  Requests <- MCRequests
  Cells = {1, 2, 3}
  Url <- MCUrl
  Suffix <- MCSuffix
  Files <- MCFiles
  Directories = {"", "/a"}
  Stale <- MCStale
  MaxLeaves = 1
INVARIANTS
  TypeOK
  AnswersMatchQuestions
  WorkersMatchTasks
  NoCrossTalk
  OfflineOnlyAfterRetries
  OwnAnswer
PROPERTIES
  IsRequestReply
  ClientsEnd
  OnlySilenceStarves
  EveryRequestAnswered
CHECK_DEADLOCK FALSE
