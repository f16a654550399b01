CONSTANTS
  conn1 = conn1
  conn2 = conn2
  Peer = {conn1, conn2}
  MayFail = {conn2}
  MayOverrun = {conn2}
  garbage <- CaptureHoldsSocket
SPECIFICATION FairSpec
INVARIANTS TypeOK SocketHeld
PROPERTIES StopEnds
CHECK_DEADLOCK FALSE
