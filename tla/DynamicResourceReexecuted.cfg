\* One list with a suballocated buffer, executed twice.
SPECIFICATION Spec
CONSTANTS
  Lists = {l1}
  Kinds = {"buffer"}
  SubCounts = {2}
  MaxExecutions <- Twice
  LateRecycle = FALSE
  MaxSeq = 2
  MaxMaps = 3
PROPERTY
  DiscardIsExclusive
