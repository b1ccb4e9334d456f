CONSTANTS
  Conn = {c1}
  NoConn = NoConn
  NFd = 1
  Batch = 1
  ReqLen = 1
  RspLen = 1
  SndBuf = 2
  MaxReq = 2
  MaxGot = 4
  Lockstep = TRUE
SPECIFICATION Spec
INVARIANT AnswersSentOnce
