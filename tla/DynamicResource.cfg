\* A dynamic buffer with one or two suballocations in an allocation.
SPECIFICATION Spec
SYMMETRY ListSymmetry
CONSTANTS
  Lists = {l1, l2}
  Kinds = {"buffer"}
  SubCounts = {1, 2}
  MaxExecutions <- TwiceUnlessSuballocated
  LateRecycle = FALSE
  MaxSeq = 3
  MaxMaps = 3
INVARIANTS
  NoOverwriteIsBound
  OneOwner
PROPERTIES
  DiscardIsExclusive
