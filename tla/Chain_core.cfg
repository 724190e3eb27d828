SPECIFICATION FairSpec
CONSTANTS
  Objs = {o1}
  Blocks = {b1, b2, b3}
  Chains = {c1, c2}
  NULL = NULL
  Kinds = {"queue", "stack"}
  MaxSize = 2
  MaxLeaked = 1
  MaxHeld = 1
INVARIANTS TypeOK RefCounts WellLinked LoopCursorsOK
PROPERTIES HandlersReturn NoResurrection
