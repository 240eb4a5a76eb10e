\* Lists of passes that clear, draw to, resolve and read three textures.
SPECIFICATION Spec
CONSTANTS
  x = x
  y = y
  rt = rt
  ds = ds
  tex = tex
  None = None
  Lane = 4
  Parity = 3
  Resources = {rt, ds, tex}
  Planes <- AllPlanes
  PlanesOf <- TexturePlanes
  AttachmentSets <- Targets
  ReadonlySets <- Readonly
  ClearSets <- Clears
  Resolves <- ResolveTo
  Presents <- PresentFrom
  ShaderStages = {"pixel"}
  ShaderModes = {"read"}
  PassTypes = {"blit"}
  FragmentToVertex = FALSE
  DistantWrites = FALSE
  ResolveAnywhere = FALSE
  ClearAfterReaders = FALSE
  WithEvents = TRUE
  UavResources = {tex}
  MaxId = 6
  MaxList = 4
  MaxWork = 100
  MaxCommands = 1
  MaxUses = 1
  MaxPasses = 4
  MaxControls = 0
INVARIANTS
  ConflictsAreOrdered
  SameAsRecorded
  EventsKeepTheirPlace
CHECK_DEADLOCK FALSE
