SPECIFICATION Spec
CONSTANTS
  Objs = {o1, o2}
  MaxHeld = 1
  Arrays = {a1, a2}
  NULL = NULL
  Step = 2
  Retains = {TRUE, FALSE}
  Nullables = {TRUE, FALSE}
  ReallocFails = TRUE
  MaxLength = 3
  MaxBoth = 4
  MaxLeaked = 1
SYMMETRY Symmetry
CONSTRAINT FewElements
INVARIANT ElementsOK
PROPERTIES CopiesAgree Ends ImplementsVector
CHECK_DEADLOCK FALSE
