CONSTANTS
  self = self
  p = p
  Self = self
  Peer = {p}
  MaxQueue = 1
SPECIFICATION FairSpec
INVARIANTS TypeOK KnownOnce
PROPERTIES LoopUndisturbed OneEndsAll StopEnds Discovery
CHECK_DEADLOCK FALSE
