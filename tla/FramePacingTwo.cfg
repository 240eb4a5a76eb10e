\* Two swap chains present from their own threads; the latency is 3, as created.
SPECIFICATION PacingSpec
CONSTANTS
  Presenters = {p1, p2}
  LatencyRange = {3}
  RacySet = FALSE
  Depth = 2
  MaxFrames = 5
  MaxSets = 0
  W = 16
INVARIANT
  WaitsForPresentedFrame
