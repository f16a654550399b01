CONSTANTS
  a = a
  b = b
  Programs = {"audio", "basic"}
  Client = {a, b}
  STAMP = 2
  BUFFSIZE = 3
  Captured = {1}
  SndBuf = 5
  RETRIES = 1
  MaxPackets <- Uneven
SPECIFICATION FairSpec
INVARIANTS TypeOK AckOwed SendsToClient
PROPERTIES LagStays AckArrives ServerGoneEnds SocketReleased
CHECK_DEADLOCK FALSE
