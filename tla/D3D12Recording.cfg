\* Two lists, one allocator, six calls that may set four kinds of state.
SPECIFICATION Spec
SYMMETRY Symmetry
CONSTANTS
  Lists = {l1, l2}
  Allocators = {a1}
  Pipelines <- TwoPipelinesEach
  KkPipelines = {}
  ViewportCounts = {1, 2}
  CountChanges = FALSE
  Settable = {"VertexBuffer", "GraphicsRootSignature", "GraphicsRootArguments", "Viewport"}
  MaxCalls = 6
INVARIANTS
  ExecutesWhatWasRecorded
  CommandsSeeState
CHECK_DEADLOCK FALSE
