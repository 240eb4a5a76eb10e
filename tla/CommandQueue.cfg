\* Three slots, four chunks: the ring wraps and every wait can block.
SPECIFICATION FairSpec
CONSTANTS
  N = 3
  W = 5
  MaxSeq = 4
  LatencyRange = {1}
INVARIANTS
  FrameInv
  RecordsIntoFreeSlot
  EncodesItsChunk
  InFlightChunkIsKept
  FinishesSubmittedChunk
  FrameSignalIsKept
PROPERTIES
  PresentIsPaced
  ImplementsPipeline
  
  ChunksRetire
  
