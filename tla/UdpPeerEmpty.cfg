CONSTANTS
  conn1 = conn1
  conn2 = conn2
  Peer = {conn1, conn2}
  MayFail = {}
  MayOverrun = {conn2}
  garbage = {}
SPECIFICATION Spec
PROPERTIES EmptyMeansClosed
CHECK_DEADLOCK FALSE
