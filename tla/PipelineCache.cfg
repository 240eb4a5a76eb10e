\* Two threads draw with two graphics pipelines.
SPECIFICATION FairSpec
CONSTANTS
  p1 = p1
  p2 = p2
  vs = vs
  ps = ps
  Tasks = {p1, p2, vs, ps}
  Pipelines = {p1, p2}
  DependsOn <- TwoPipelines
  Kind <- GraphicsOnly
  Workers = {w1, w2}
  InitialThreads = 1
  None = None
  Requesters = {r1, r2}
  MaxRequests = 2
INVARIANTS
  OneHolder
  NoStrandedContinuation
  NoHalfCreatedShader
PROPERTIES
  PipelineBecomesReady
  ShutdownEnds
