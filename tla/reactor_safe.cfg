CONSTANTS
  Conn = {c1, c2, c3}
  NoConn = NoConn
  NFd = 2
  Batch = 2
  ReqLen = 2
  RspLen = 2
  SndBuf = 1
  MaxReq = 1
  MaxGot = 1
  Lockstep = FALSE
SPECIFICATION Spec
SYMMETRY Symmetry
INVARIANTS TypeOK TablesAgree NoLostRead SendsSomething HandlersHaveAConnection
PROPERTIES EventsStayFresh ClosesOnlyDeadPeers
