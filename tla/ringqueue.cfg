CONSTANTS
  Producers = {p1, p2}
  Consumers = {c1, c2}
  Task = {t1, t2}
  NoTask = NoTask
  NoThread = NoThread
  Cap = 2
SPECIFICATION FairSpec
INVARIANTS TypeOK TokensBalance NoDataRace
PROPERTY IsLiveFifo
