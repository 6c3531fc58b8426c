CONSTANTS
  t0 = t0
  t1 = t1
  t2 = t2
  t3 = t3
  Tags <- FourTags
  ColdTag <- t0
  LinesPerSet = 3
SYMMETRY WarmTags
SPECIFICATION Spec
INVARIANT EvictsLeastRecentlyUsed
