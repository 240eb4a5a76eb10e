\* Four calls of the context, on one staging resource and one query.
SPECIFICATION FairSpec
CONSTANTS
  Staging = {r1}
  Queries = {q1}
  StallThreshold = 1
  MaxOps = 4
INVARIANTS
  WaitIsOnCommitted
  EventWillBeSignaled
  
  MapIsExclusive
PROPERTIES
  MapReturns
  PollingTerminates
