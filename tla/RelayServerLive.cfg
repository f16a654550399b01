CONSTANTS
  c1 = c1
  c2 = c2
  c3 = c3
  Conn = {c1, c2}
  Readers = {c1, c2}
  NoConn = NoConn
  Fds <- TwoFds
  BUFFSIZE = 1
  BACKLOG = 1
  SndBuf = 1
  MaxSend = 2
  IgnoreSigpipe = TRUE
SPECIFICATION FairSpec
PROPERTIES BroadcastEnds DescriptorReleased
CHECK_DEADLOCK FALSE
