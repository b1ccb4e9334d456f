CONSTANTS
  N = 2
  Code = {a, b}
  MaxTasks = 2
SPECIFICATION Spec
INVARIANT LeavesOnZero
