\* One presenting thread that changes the latency between its presents.
SPECIFICATION FairSpec
CONSTANTS
  Presenters = {p1}
  LatencyRange = {0, 1, 2}
  RacySet = FALSE
  Depth = 2
  MaxFrames = 4
  MaxSets = 2
  W = 16
INVARIANTS
  WaitsForPresentedFrame

  
