CONSTANTS
  N = 3
  Code = {a, b}
  MaxTasks = 2
SPECIFICATION FairSpec
INVARIANTS TypeOK NoForgottenWriteEnd NoTaskLost
PROPERTY RecycleEnds
