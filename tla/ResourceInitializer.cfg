\* Four resources, blocks of two units, a heap of two commands.
SPECIFICATION Spec
SYMMETRY ResourceSymmetry
CONSTANTS
  Resources = {a, b, c, d}
  None = None
  HeapSize = 2
  UploadDepth = 2
  Sizes = {1, 2, 3}
  BlockSize = 2
  Lifetime = 1
  MaxChunks = 4
INVARIANTS
  UploadedBeforeUse
  WaitsForSentUpload
PROPERTIES
  UploadMemoryIsExclusive
