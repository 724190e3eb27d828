SPECIFICATION FairSpec
CONSTANTS
  Objs = {o1, o2, o3}
  NULL = NULL
  c0 = c0
  c1 = c1
  Pools <- TwoPools
  Sizes <- TwoSizes
  MaxCount = 1
INVARIANT ListsOK
PROPERTIES SweepExact SweepReturns
