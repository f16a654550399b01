CONSTANTS
  p = p
  q = q
  Sender = {p, q}
  max_fragment_s = 2
  FrameSizes = {1, 4}
  MaxFrames = 1
  MaxRuns = 1
  Copies = 1
  MaxNet = 4
  MaxForeign = 1
  AudioWords = {0, 3}
  MaxMishaps = 2
SPECIFICATION Spec
INVARIANTS ShownWhole
CHECK_DEADLOCK FALSE
