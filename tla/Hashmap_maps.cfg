SPECIFICATION Spec
CONSTANTS
  Objs = {o1, o2}
  MaxHeld = 1
  Maps = {m1, m2}
  NULL = NULL
  a = a
  q4 = q4
  q2 = q2
  q1 = q1
  Texts <- Percent
  Format <- PercentFormat
  Hash <- PercentHash
  Retains = {TRUE, FALSE}
  Loops = {"each", "copy"}
  Given <- Passed
  Size = 2
  MaxNodes = 3
  MaxLeaked = 1
SYMMETRY Symmetry
CONSTRAINT Few
INVARIANTS RefCounts DuplicatesOnlyAfterRejection
PROPERTIES EachShowsAll CopyAgrees ImplementsKeyMap

