SPECIFICATION LoopSpec
CONSTANTS
  Posters = {p1, p2}
  MaxPosts = 3
  PipeCapacity = 3
  Nobody = Nobody
INVARIANTS WokenUnlessFull
PROPERTIES PostedRuns OwnerReturns
CHECK_DEADLOCK FALSE
