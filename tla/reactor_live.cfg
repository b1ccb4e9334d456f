CONSTANTS
  Conn = {c1, c2}
  NoConn = NoConn
  NFd = 2
  Batch = 1
  ReqLen = 2
  RspLen = 1
  SndBuf = 1
  MaxReq = 2
  MaxGot = 2
  Lockstep = TRUE
SPECIFICATION FairSpec
PROPERTIES CloseIsNoticed EveryRequestDecoded
