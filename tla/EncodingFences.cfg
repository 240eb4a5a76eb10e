\* Passes that share two buffers; each is flushed before the next begins.
SPECIFICATION Spec
CONSTANTS
  x = x
  y = y
  rt = rt
  ds = ds
  tex = tex
  None = None
  Lane = 2
  Parity = 3
  Resources = {x, y}
  Planes = {}
  PlanesOf <- NoPlanes
  AttachmentSets <- Nothings
  ReadonlySets <- Nothings
  ClearSets = {}
  Resolves = {}
  Presents = {}
  ShaderStages = {"vertex", "pixel"}
  ShaderModes = {"read", "uav"}
  PassTypes = {"compute"}
  FragmentToVertex = FALSE
  DistantWrites = FALSE
  ResolveAnywhere = FALSE
  ClearAfterReaders = FALSE
  WithEvents = FALSE
  UavResources = {x, y}
  MaxId = 8
  MaxList = 1
  MaxWork = 6
  MaxCommands = 3
  MaxUses = 2
  MaxPasses = 8
  MaxControls = 1
INVARIANTS
  ConflictsAreOrdered
  DistantPassesAreOrdered
  BarriersBetweenConflicts
SYMMETRY Symmetry
CHECK_DEADLOCK FALSE
