CONSTANTS
  Conn = {c1}
  NoConn = NoConn
  NFd = 1
  Batch = 1
  ReqLen = 2
  RspLen = 2
  SndBuf = 1
  MaxReq = 2
  MaxGot = 4
  Lockstep = FALSE
SPECIFICATION Spec
INVARIANT LeftoverIsPending
