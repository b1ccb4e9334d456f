SPECIFICATION Spec
CONSTANTS
  Chars = {"a", "b"}
  MaxMessage = 2
  Size = 4
  MaxText = 6
INVARIANT AllReachesTheFile
CHECK_DEADLOCK FALSE
