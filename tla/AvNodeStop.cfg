CONSTANTS
  self = self
  p = p
  Self = self
  Peer = {}
  MaxQueue = 1
SPECIFICATION FairSpec
PROPERTIES EnterStops
CHECK_DEADLOCK FALSE
