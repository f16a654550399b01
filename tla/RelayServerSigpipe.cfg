CONSTANTS
  c1 = c1
  c2 = c2
  c3 = c3
  Conn = {c1, c2, c3}
  Readers = {}
  NoConn = NoConn
  Fds <- MCFds
  BUFFSIZE = 2
  BACKLOG = 1
  SndBuf = 2
  MaxSend = 1
  IgnoreSigpipe = FALSE
SYMMETRY Symmetry
SPECIFICATION Spec
INVARIANTS BroadcastReachesAll
CHECK_DEADLOCK FALSE
