CONSTANTS
  p = p
  q = q
  Sender = {p}
  max_fragment_s = 2
  FrameSizes = {1, 4}
  MaxFrames = 2
  MaxRuns = 2
  Copies = 2
  MaxNet = 3
  MaxForeign = 1
  AudioWords = {0, 3}
  MaxMishaps = 2
SPECIFICATION FairSpec
INVARIANTS TypeOK PureIsWhole CompleteIsShown
PROPERTIES FramesShown
CHECK_DEADLOCK FALSE
